---- MODULE Spec2Model ----
(***************************************************************************)
(* Model of the ACE playbook engine (src/ace.py): guardrail sanitizer,     *)
(* task signature, tip identity, curator, merge / decay / eviction,        *)
(* retrieval and feedback, and of the callers that share the module-level  *)
(* ace_manager (src/browser_agent.py).                                     *)
(*                                                                         *)
(* Representation.                                                         *)
(*  - A Python str is a sequence of one-character strings.                 *)
(*  - A confidence is an integer number of hundredths (0.65 is 65).  The   *)
(*    code rounds to two decimals with round(); where the exact decimal    *)
(*    value lies half-way between two hundredths the binary floating-point *)
(*    value may fall on either side, so both neighbours are possible       *)
(*    outcomes; within one pass equal values round alike (round_with).     *)
(*  - An instant (datetime.utcnow()) is an integer number of ticks,        *)
(*    TicksPerDay ticks to the day.                                        *)
(*  - hashlib.sha256(...).hexdigest()[:12] is modelled by the string that  *)
(*    is hashed: equal preimages give equal ids, and distinct preimages    *)
(*    are taken to give distinct ids.                                      *)
(***************************************************************************)
EXTENDS Integers, Sequences, FiniteSets, TLC

VARIABLES
    playbook,      \* ACEManager.playbook: entries, active_tips, preferences
    disk,          \* content of the playbook document (playbook_path)
    now,           \* the clock, in ticks
    call,          \* the last public call: its inputs, intermediate and returned values
    used_tip_ids,  \* the caller's used_tip_ids, as returned by its last prompt_overlay
    has_client,    \* ACEManager._client is set (OPENAI_API_KEY was present at construction)
    runs,          \* number of record_run calls made
    overlays,      \* number of prompt_overlay calls made
    ticks,         \* number of clock advances made
    san,           \* a call of _sanitize_text on its own: its input and its output
    pc,            \* per thread: where the thread is in run_agent
    local,         \* per thread: the local variables of run_agent and record_run
    ace_module     \* the module's DEFAULT_PLAYBOOK dict, and whether
                   \* playbook["entries"] is the very list DEFAULT_PLAYBOOK["entries"]

vars == <<playbook, disk, now, call, used_tip_ids, has_client, runs, overlays, ticks,
          san, pc, local, ace_module>>

-----------------------------------------------------------------------------
(* Generic helpers                                                          *)

Min(a, b) == IF a <= b THEN a ELSE b

Max(a, b) == IF a >= b THEN a ELSE b

\* s[:n]
Take(s, n) == SubSeq(s, 1, Min(n, Len(s)))

\* s[-n:]
Last(s, n) == SubSeq(s, Max(1, Len(s) - n + 1), Len(s))

Range(s) == {s[i] : i \in 1..Len(s)}

-----------------------------------------------------------------------------
(* Characters and strings                                                   *)

UpperChars == <<"A","B","C","D","E","F","G","H","I","J","K","L","M","N","O","P","Q","R","S","T","U","V","W","X","Y","Z">>

LowerChars == <<"a","b","c","d","e","f","g","h","i","j","k","l","m","n","o","p","q","r","s","t","u","v","w","x","y","z">>

Digits == {"0","1","2","3","4","5","6","7","8","9"}

\* the class [A-Za-z0-9]
Alnum == Range(UpperChars) \cup Range(LowerChars) \cup Digits

\* the class \s
Whitespace == {" ", "\t", "\n", "\r"}

LowerOf == [c \in Range(UpperChars) |->
               LowerChars[CHOOSE i \in 1..Len(UpperChars) : UpperChars[i] = c]]

\* str.lower() on one character
lower_char(c) == IF c \in DOMAIN LowerOf THEN LowerOf[c] ELSE c

\* str.lower()
lower(s) == [i \in 1..Len(s) |-> lower_char(s[i])]

\* p occurs in s at position i
StartsWithAt(s, i, p) ==
    /\ i + Len(p) - 1 <= Len(s)
    /\ \A k \in 1..Len(p) : s[i + k - 1] = p[k]

\* p occurs in s.lower() at position i (p is lower case)
LowerStartsWithAt(s, i, p) ==
    /\ i + Len(p) - 1 <= Len(s)
    /\ \A k \in 1..Len(p) : lower_char(s[i + k - 1]) = p[k]

\* p in s
Contains(s, p) == \E i \in 1..(Len(s) - Len(p) + 1) : StartsWithAt(s, i, p)

RECURSIVE RunEndIn(_, _, _)
\* end of the longest run of characters of class C that starts at i (i-1 if none)
RunEndIn(s, i, C) ==
    IF i > Len(s) \/ s[i] \notin C THEN i - 1 ELSE RunEndIn(s, i + 1, C)

RECURSIVE RunEndNotIn(_, _, _)
\* end of the longest run of characters outside class C that starts at i
RunEndNotIn(s, i, C) ==
    IF i > Len(s) \/ s[i] \in C THEN i - 1 ELSE RunEndNotIn(s, i + 1, C)

RECURSIVE RunStartIn(_, _, _)
\* start of the longest run of characters of class C that ends at j (j+1 if none)
RunStartIn(s, j, C) ==
    IF j < 1 \/ s[j] \notin C THEN j + 1 ELSE RunStartIn(s, j - 1, C)

\* str.strip(chars)
strip_chars(s, chars) ==
    LET first == RunEndIn(s, 1, chars) + 1
    IN  IF first > Len(s) THEN <<>>
        ELSE SubSeq(s, first, RunStartIn(s, Len(s), chars) - 1)

\* str.strip()
strip(s) == strip_chars(s, Whitespace)

RECURSIVE replace_from(_, _, _, _)
replace_from(s, old, new, i) ==
    IF i > Len(s) THEN <<>>
    ELSE IF StartsWithAt(s, i, old)
         THEN new \o replace_from(s, old, new, i + Len(old))
         ELSE <<s[i]>> \o replace_from(s, old, new, i + 1)

\* str.replace(old, new), old non-empty
replace(s, old, new) == replace_from(s, old, new, 1)

-----------------------------------------------------------------------------
(* Guardrails (DEFAULT_GUARDRAILS)                                          *)

Marker == <<"[","R","E","D","A","C","T","E","D","]">>

never_store_terms ==
    << <<"p","a","s","s","w","o","r","d">>,
       <<"t","o","k","e","n">>,
       <<"c","o","o","k","i","e">>,
       <<"s","e","s","s","i","o","n">>,
       <<"s","e","c","r","e","t">>,
       <<"a","p","i","_","k","e","y">> >>

redact_patterns ==
    << "sk-[A-Za-z0-9]{20,}",
       "(?i)api[_-]?key\\s*[:=]\\s*\\S+",
       "(?i)bearer\\s+[A-Za-z0-9\\-\\._]+" >>

SkMinRun == 20

\* sk-[A-Za-z0-9]{20,} : index of the last matched character, 0 if no match at i
match_sk(s, i) ==
    IF ~StartsWithAt(s, i, <<"s","k","-">>) THEN 0
    ELSE LET e == RunEndIn(s, i + 3, Alnum)
         IN  IF e - (i + 3) + 1 >= SkMinRun THEN e ELSE 0

\* (?i)api[_-]?key\s*[:=]\s*\S+
match_api_key(s, i) ==
    IF ~LowerStartsWithAt(s, i, <<"a","p","i">>) THEN 0
    ELSE LET j == IF i + 3 <= Len(s) /\ s[i + 3] \in {"_", "-"}
                       /\ LowerStartsWithAt(s, i + 4, <<"k","e","y">>)
                  THEN i + 4 ELSE i + 3
         IN  IF ~LowerStartsWithAt(s, j, <<"k","e","y">>) THEN 0
             ELSE LET c == RunEndIn(s, j + 3, Whitespace) + 1
                  IN  IF c > Len(s) \/ s[c] \notin {":", "="} THEN 0
                      ELSE LET v == RunEndIn(s, c + 1, Whitespace) + 1
                               e == RunEndNotIn(s, v, Whitespace)
                           IN  IF e >= v THEN e ELSE 0

\* the class [A-Za-z0-9\-\._]
BearerChars == Alnum \cup {"-", ".", "_"}

\* (?i)bearer\s+[A-Za-z0-9\-\._]+
match_bearer(s, i) ==
    IF ~LowerStartsWithAt(s, i, <<"b","e","a","r","e","r">>) THEN 0
    ELSE LET w == RunEndIn(s, i + 6, Whitespace)
             e == RunEndIn(s, w + 1, BearerChars)
         IN  IF w >= i + 6 /\ e >= w + 1 THEN e ELSE 0

\* re.match of one of the redact patterns at position i
match_end(pattern, s, i) ==
    CASE pattern = redact_patterns[1] -> match_sk(s, i)
      [] pattern = redact_patterns[2] -> match_api_key(s, i)
      [] pattern = redact_patterns[3] -> match_bearer(s, i)

RECURSIVE re_sub_from(_, _, _)
re_sub_from(pattern, s, i) ==
    IF i > Len(s) THEN <<>>
    ELSE LET e == match_end(pattern, s, i)
         IN  IF e >= i
             THEN Marker \o re_sub_from(pattern, s, e + 1)
             ELSE <<s[i]>> \o re_sub_from(pattern, s, i + 1)

\* re.sub(pattern, "[REDACTED]", s)
re_sub(pattern, s) == re_sub_from(pattern, s, 1)

RECURSIVE redact_all(_, _)
redact_all(cleaned, k) ==
    IF k > Len(redact_patterns) THEN cleaned
    ELSE redact_all(re_sub(redact_patterns[k], cleaned), k + 1)

\* one iteration of the never_store_terms loop
deny_term(cleaned, term) ==
    IF Contains(lower(cleaned), lower(term))
    THEN replace(cleaned, term, Marker)
    ELSE cleaned

RECURSIVE deny_all(_, _)
deny_all(cleaned, k) ==
    IF k > Len(never_store_terms) THEN cleaned
    ELSE deny_all(deny_term(cleaned, never_store_terms[k]), k + 1)

MaxTextLen == 2000

sanitize_text(text) ==
    IF text = <<>> THEN <<>>
    ELSE Take(deny_all(redact_all(text, 1), 1), MaxTextLen)

-----------------------------------------------------------------------------
(* Task signature, similarity, tip identity                                 *)

RECURSIVE findall_alnum(_, _)
\* re.findall(r"[a-zA-Z0-9]+", s), scanning from position i
findall_alnum(s, i) ==
    IF i > Len(s) THEN <<>>
    ELSE IF s[i] \in Alnum
         THEN LET e == RunEndIn(s, i, Alnum)
              IN  <<SubSeq(s, i, e)>> \o findall_alnum(s, e + 1)
         ELSE findall_alnum(s, i + 1)

stop ==
    { <<"t","h","e">>, <<"a","n","d">>, <<"o","r">>, <<"t","o">>, <<"f","o","r">>,
      <<"o","f">>, <<"a">>, <<"a","n">>, <<"i","n">>, <<"o","n">>, <<"a","t">>,
      <<"w","i","t","h">>, <<"b","y">> }

MaxSignature == 12

IsSignatureWord(w) == w # <<>> /\ w \notin stop

task_signature(task) ==
    Take(SelectSeq(findall_alnum(lower(task), 1), IsSignatureWord), MaxSignature)

\* Jaccard index as the pair <<numerator, denominator>>; <<0, 1>> is 0.0
similarity(sig_a, sig_b) ==
    LET set_a == Range(sig_a)
        set_b == Range(sig_b)
    IN  IF set_a = {} \/ set_b = {} THEN <<0, 1>>
        ELSE <<Cardinality(set_a \cap set_b), Cardinality(set_a \cup set_b)>>

\* the string whose sha256 prefix is the id: f"{domain}::{tip}"
tip_id(tip, domain) == domain \o <<":", ":">> \o tip

-----------------------------------------------------------------------------
(* Inputs                                                                   *)

TicksPerDay == 2

GlobalDomain == <<"g","l","o","b","a","l">>

MaxRuns == 2

MaxOverlays == 1

MaxTicks == 1

MaxFragments == 3

MaxThreads == 2

D1 == <<"d","1">>

D2 == <<"d","2">>

TaskPricing == <<"c","h","e","c","k"," ","p","r","i","c","i","n","g"," ","p","a","g","e">>

TaskPassword == <<"r","e","s","e","t"," ","p","a","s","s","w","o","r","d"," ","p","a","g","e">>

TaskShort == <<"c","h","e","c","k"," ","p","r","i","c","i","n","g">>

OutcomePrice == <<"P","r","i","c","e"," ","i","s"," ","$","1","0","/","m","o">>

ErrTimeout == <<"t","i","m","e","o","u","t"," ","c","l","i","c","k","i","n","g"," ","s","e","l","e","c","t","o","r">>

PrefBrief == <<"b","e"," ","b","r","i","e","f">>

ManyErrorsLen == 21

\* more distinct error strings than the store keeps tips: "err a", "err b", ...
ManyErrors == [k \in 1..ManyErrorsLen |-> <<"e","r","r"," ">> \o <<LowerChars[k]>>]

\* four times the same error string
RepeatedErrors == [k \in 1..4 |-> ErrTimeout]

\* an action record as build_action_record makes it
ActionClick ==
    [ kind |-> "dict",
      d |-> [ tool |-> [t |-> "str", v |-> <<"c","l","i","c","k">>],
              args |-> [t |-> "other", v |-> <<"{","'","s","e","l","e","c","t","o","r","'",":"," ","'","#","b","u","y","'","}">>],
              result_type |-> [t |-> "str", v |-> <<"h","a","r","d","_","f","a","i","l">>],
              error_category |-> [t |-> "str", v |-> <<"t","i","m","e","o","u","t">>],
              message |-> [t |-> "str", v |-> <<"T","i","m","e","o","u","t"," ","o","n"," ","#","b","u","y">>],
              latency_ms |-> [t |-> "num", v |-> <<"1","2","0">>],
              url |-> [t |-> "str", v |-> <<"h","t","t","p","s",":","/","/","s","h","o","p",".","e","x","a","m","p","l","e">>],
              retries |-> [t |-> "num", v |-> <<"0">>] ] ]

SpecRun ==
    [task |-> TaskPricing, outcome |-> OutcomePrice, actions |-> <<>>,
     errors |-> <<ErrTimeout>>, preferences |-> <<>>, domain |-> D1]

RepeatRun ==
    [task |-> TaskPricing, outcome |-> <<>>, actions |-> <<>>,
     errors |-> RepeatedErrors, preferences |-> <<>>, domain |-> D1]

ManyRun ==
    [task |-> TaskPricing, outcome |-> OutcomePrice, actions |-> <<>>,
     errors |-> ManyErrors, preferences |-> <<>>, domain |-> D1]

ActionRun ==
    [task |-> TaskPassword, outcome |-> <<" ">>, actions |-> <<ActionClick>>,
     errors |-> <<>>, preferences |-> <<PrefBrief>>, domain |-> D2]

EmptyRun ==
    [task |-> <<>>, outcome |-> <<>>, actions |-> <<>>,
     errors |-> <<>>, preferences |-> <<>>, domain |-> GlobalDomain]

RunScenarios == {SpecRun, RepeatRun, ManyRun, ActionRun, EmptyRun}

NoReason == <<>>

ReasonNoContent == <<"n","o","_","r","e","l","e","v","a","n","t","_","c","o","n","t","e","n","t">>

ReasonTimeout == <<"t","i","m","e","o","u","t">>

ReasonCaptcha == <<"c","a","p","t","c","h","a">>

ReasonSession == <<"s","e","s","s","i","o","n"," ","e","x","p","i","r","e","d">>

\* goal_status with the reason_for_status passed along with it
StatusReasons ==
    { [goal_status |-> "success", reason_for_status |-> NoReason],
      [goal_status |-> "partial", reason_for_status |-> NoReason],
      [goal_status |-> "failed", reason_for_status |-> ReasonSession],
      [goal_status |-> "blocked", reason_for_status |-> ReasonCaptcha],
      [goal_status |-> "unknown", reason_for_status |-> NoReason] }

ReplyText == <<"-"," ","w","a","i","t"," ","f","o","r"," ","t","h","e"," ","s","e","s","s","i","o","n"," ","c","o","o","k","i","e">>

\* what the reflection call does when there is a client: return this content, or raise
ReplyTips == [ok |-> TRUE, text |-> ReplyText]

ReplyRaises == [ok |-> FALSE]

\* a response without choices: resp.choices[0] raises
ReplyNoChoices == [ok |-> FALSE, choices |-> 0]

\* a response whose message content is None
ReplyNoContent == [ok |-> TRUE, text |-> <<>>]

\* a response whose content is bullets and blanks only
ReplyBlank == [ok |-> TRUE, text |-> <<"-"," ","\n","U+2022"," ">>]

RunInput(sc, goal_status, reason_for_status, pass_ids) ==
    [sc |-> sc, goal_status |-> goal_status, reason_for_status |-> reason_for_status,
     pass_ids |-> pass_ids, reply |-> ReplyTips]

\* The calls of record_run: each scenario with the goal infer_goal gives it and no
\* used_tip_ids, and calls that pass the ids of the caller's last prompt_overlay.
RunInputs ==
    { RunInput(SpecRun, "partial", NoReason, FALSE),
      RunInput(RepeatRun, "failed", ReasonNoContent, FALSE),
      RunInput(ManyRun, "partial", NoReason, FALSE),
      RunInput(ActionRun, "partial", ReasonTimeout, FALSE),
      RunInput(EmptyRun, "partial", ReasonNoContent, FALSE) }
    \cup { RunInput(SpecRun, sr.goal_status, sr.reason_for_status, TRUE) : sr \in StatusReasons }
    \cup { RunInput(ManyRun, "blocked", ReasonCaptcha, TRUE),
           RunInput(EmptyRun, "success", NoReason, TRUE),
           RunInput(EmptyRun, "failed", ReasonNoContent, TRUE),
           [RunInput(SpecRun, "partial", NoReason, FALSE) EXCEPT !.reply = ReplyRaises] }

OverlayTasks == {TaskShort, <<>>}

\* the calls of prompt_overlay
OverlayInputs ==
    { [task |-> TaskShort, domain |-> D1],
      [task |-> <<>>, domain |-> D1],
      [task |-> TaskShort, domain |-> D2] }

\* a day and a half, and twenty-five days
TickSteps == {TicksPerDay + 1, 25 * TicksPerDay}

MaxPrefRuns == 3

\* preferences "pref a", "pref b", ...: the from-th to the to-th
ManyPrefs(from, to) == [k \in 1..(to - from + 1) |-> <<"p","r","e","f"," ">> \o <<LowerChars[from + k - 1]>>]

PrefToken == <<"t","o","k","e","n">>

PrefCookie == <<"c","o","o","k","i","e">>

\* the preference lists of the calls: ten new ones, ten that overlap them, eleven
\* (one more than an entry keeps), and one with repeats, blanks and two that
\* the sanitizer makes equal
PrefLists ==
    { ManyPrefs(1, 10), ManyPrefs(8, 17), ManyPrefs(11, 21),
      <<PrefBrief, <<>>, <<" ">>, PrefBrief, PrefToken, PrefCookie>>, <<>> }

PrefScenarios ==
    { [task |-> TaskShort, outcome |-> <<>>, actions |-> <<>>, errors |-> <<>>,
       preferences |-> prefs, domain |-> D1] : prefs \in PrefLists }

PrefRunInputs == { RunInput(sc, "partial", NoReason, FALSE) : sc \in PrefScenarios }

LongLen == 32

\* a task, an outcome and the fields of an action, of LongLen characters each
LongTask == [k \in 1..LongLen |-> "x"]

LongOutcome == [k \in 1..LongLen |-> "y"]

LongAction ==
    [ kind |-> "dict",
      d |-> [ tool |-> [t |-> "str", v |-> [k \in 1..LongLen |-> "z"]],
              result_type |-> [t |-> "str", v |-> [k \in 1..LongLen |-> "r"]],
              error_category |-> [t |-> "str", v |-> [k \in 1..LongLen |-> "e"]] ] ]

LongRun ==
    [task |-> LongTask, outcome |-> LongOutcome,
     actions |-> <<LongAction, LongAction, LongAction>>, errors |-> <<>>,
     preferences |-> <<>>, domain |-> D1]

LongRunInputs ==
    { RunInput(LongRun, "partial", NoReason, FALSE),
      RunInput(SpecRun, "partial", NoReason, FALSE),
      RunInput(SpecRun, "blocked", ReasonCaptcha, TRUE),
      RunInput(ActionRun, "partial", ReasonTimeout, FALSE) }

\* the texts the inputs hand to _sanitize_text
KnownTexts ==
    UNION { {sc.task, sc.outcome} \cup Range(sc.errors) \cup Range(sc.preferences)
            \cup UNION { {a.d[k].v : k \in DOMAIN a.d} : a \in Range(sc.actions) }
            : sc \in RunScenarios \cup PrefScenarios \cup {LongRun} }

\* _sanitize_text on the known texts, evaluated once
SanitizedTexts == [x \in KnownTexts |-> sanitize_text(x)]

sanitized(text) ==
    IF text \in DOMAIN SanitizedTexts THEN SanitizedTexts[text] ELSE sanitize_text(text)

KnownTasks == {sc.task : sc \in RunScenarios \cup {LongRun}} \cup OverlayTasks

\* _task_signature on the known tasks, evaluated once
Signatures == [x \in KnownTasks |-> task_signature(x)]

signature_of(task) ==
    IF task \in DOMAIN Signatures THEN Signatures[task] ELSE task_signature(task)

-----------------------------------------------------------------------------
(* Clock and confidence arithmetic                                          *)

\* (now - last_dt).days
days_between(last_dt, t) == (t - last_dt) \div TicksPerDay

\* round(x, 2) for x given in ten-thousandths: the result in hundredths.  At an
\* exact tie the floating-point value of x decides, so both neighbours are possible.
IsTie(v) == v % 100 = 50

\* round(x, 2) where the ties in `ups` go up and the other ties go down
round_with(ups, v) ==
    IF IsTie(v) THEN (IF v \in ups THEN v \div 100 + 1 ELSE v \div 100)
    ELSE (v + 50) \div 100

round_choices(v) == {round_with(ups, v) : ups \in SUBSET {v}}

-----------------------------------------------------------------------------
(* Curator                                                                  *)

tip_obj(tip, signature, task, confidence, domain, t) ==
    [ id |-> tip_id(tip, domain),
      tip |-> tip,
      confidence |-> confidence,
      task_signature |-> signature,
      task |-> task,
      created_at |-> t,
      last_used |-> t,
      domain |-> domain,
      helpful_count |-> 0,
      harmful_count |-> 0 ]

\* dict.get(key, default) on a sanitized action record
get(act, key, default) == IF key \in DOMAIN act THEN act[key].v ELSE default

\* sanitized actions are always dicts, so only the dict branch is taken
summarize_action(act) ==
    get(act, "tool", <<"t","o","o","l">>) \o <<" ", "[">>
        \o get(act, "result_type", <<"o","k">>) \o <<"/">>
        \o get(act, "error_category", <<"n","o","n","e">>) \o <<"]">>

RECURSIVE join(_, _)
\* sep.join(parts)
join(sep, parts) ==
    IF parts = <<>> THEN <<>>
    ELSE IF Len(parts) = 1 THEN parts[1]
         ELSE parts[1] \o sep \o join(sep, Tail(parts))

OutcomeTipHead == <<"W","h","e","n"," ","t","a","c","k","l","i","n","g"," ","'">>

OutcomeTipMid == <<"'",","," ","k","e","e","p"," ","t","h","e"," ","l","a","s","t"," ","o","b","s","e","r","v","e","d"," ","o","u","t","c","o","m","e"," ","i","n"," ","m","i","n","d",":"," ">>

ErrorTipHead == <<"A","v","o","i","d"," ","r","e","p","e","a","t","i","n","g"," ","t","h","i","s"," ","f","a","i","l","u","r","e"," ","f","o","r"," ","'">>

ActionTipHead == <<"R","e","c","e","n","t"," ","a","c","t","i","o","n","s"," ","f","o","r"," ","'">>

TipMid == <<"'",":"," ">>

FallbackTipHead == <<"L","o","g"," ","k","e","p","t"," ","f","o","r"," ","'">>

FallbackTipTail == <<"'",","," ","n","o"," ","s","p","e","c","i","f","i","c"," ","g","u","i","d","a","n","c","e"," ","y","e","t",".">>

OutcomeCut == 280

ErrorCut == 180

SummaryCut == 280

SummaryActions == 3

OutcomeConfidence == 65

ErrorConfidence == 70

ActionConfidence == 60

FallbackConfidence == 50

\* curate_entry with the outcome tip made only when the run had no errors
curate_entry_outcome_else(entry, domain, t) ==
    LET task == strip(entry.task)
        outcome == strip(entry.outcome)
        errors == entry.errors
        signature == entry.signature
        outcome_tips ==
            IF outcome # <<>> /\ errors = <<>>
            THEN << tip_obj(OutcomeTipHead \o task \o OutcomeTipMid \o Take(outcome, OutcomeCut),
                            signature, task, OutcomeConfidence, domain, t) >>
            ELSE <<>>
        error_tips ==
            [k \in 1..Len(errors) |->
                tip_obj(ErrorTipHead \o task \o TipMid \o Take(errors[k], ErrorCut),
                        signature, task, ErrorConfidence, domain, t)]
        tips == outcome_tips \o error_tips
    IN  IF tips # <<>> THEN tips
        ELSE << tip_obj(FallbackTipHead \o task \o FallbackTipTail,
                        signature, task, FallbackConfidence, domain, t) >>

\* curate_entry with one error tip for the entry, not one for each error
curate_entry_one_error_tip(entry, domain, t) ==
    LET task == strip(entry.task)
        outcome == strip(entry.outcome)
        errors == entry.errors
        actions == entry.actions
        signature == entry.signature
        outcome_tips ==
            IF outcome # <<>>
            THEN << tip_obj(OutcomeTipHead \o task \o OutcomeTipMid \o Take(outcome, OutcomeCut),
                            signature, task, OutcomeConfidence, domain, t) >>
            ELSE <<>>
        error_tips ==
            [k \in 1..Min(1, Len(errors)) |->
                tip_obj(ErrorTipHead \o task \o TipMid \o Take(errors[k], ErrorCut),
                        signature, task, ErrorConfidence, domain, t)]
        summary ==
            join(<<",", " ">>,
                 [k \in 1..Len(Last(actions, SummaryActions)) |->
                     summarize_action(Last(actions, SummaryActions)[k])])
        action_tips ==
            IF actions # <<>>
            THEN << tip_obj(ActionTipHead \o task \o TipMid \o Take(summary, SummaryCut),
                            signature, task, ActionConfidence, domain, t) >>
            ELSE <<>>
        tips == outcome_tips \o error_tips \o action_tips
    IN  IF tips # <<>> THEN tips
        ELSE << tip_obj(FallbackTipHead \o task \o FallbackTipTail,
                        signature, task, FallbackConfidence, domain, t) >>

curate_entry(entry, domain, t) ==
    LET task == strip(entry.task)
        outcome == strip(entry.outcome)
        errors == entry.errors
        actions == entry.actions
        signature == entry.signature
        outcome_tips ==
            IF outcome # <<>>
            THEN << tip_obj(OutcomeTipHead \o task \o OutcomeTipMid \o Take(outcome, OutcomeCut),
                            signature, task, OutcomeConfidence, domain, t) >>
            ELSE <<>>
        error_tips ==
            [k \in 1..Len(errors) |->
                tip_obj(ErrorTipHead \o task \o TipMid \o Take(errors[k], ErrorCut),
                        signature, task, ErrorConfidence, domain, t)]
        summary ==
            join(<<",", " ">>,
                 [k \in 1..Len(Last(actions, SummaryActions)) |->
                     summarize_action(Last(actions, SummaryActions)[k])])
        action_tips ==
            IF actions # <<>>
            THEN << tip_obj(ActionTipHead \o task \o TipMid \o Take(summary, SummaryCut),
                            signature, task, ActionConfidence, domain, t) >>
            ELSE <<>>
        tips == outcome_tips \o error_tips \o action_tips
    IN  IF tips # <<>> THEN tips
        ELSE << tip_obj(FallbackTipHead \o task \o FallbackTipTail,
                        signature, task, FallbackConfidence, domain, t) >>

-----------------------------------------------------------------------------
(* Merge, decay, eviction                                                   *)

\* t.get("id") or self._tip_id(t.get("tip", ""), t.get("domain", "default"))
tip_key(t) == IF t.id # <<>> THEN t.id ELSE tip_id(t.tip, t.domain)

\* positions of key k in the insertion-ordered dict `index`
index_pos(index, k) == {i \in 1..Len(index) : tip_key(index[i]) = k}

RECURSIVE build_index(_, _)
\* {key(t): t for t in existing}: first position, last value
build_index(existing, n) ==
    IF n = 0 THEN <<>>
    ELSE LET index == build_index(existing, n - 1)
             pos == index_pos(index, tip_key(existing[n]))
         IN  IF pos = {} THEN Append(index, existing[n])
             ELSE [index EXCEPT ![CHOOSE p \in pos : TRUE] = existing[n]]

\* the normalised average min(1.0, existing*0.5 + new*0.5)
blend_average(existing_conf, new_conf) == Min(10000, existing_conf * 50 + new_conf * 50)

\* min(1.0, existing*0.7 + new*0.5), in ten-thousandths
blend(existing_conf, new_conf) == Min(10000, existing_conf * 70 + new_conf * 50)

\* merge_one without the lookup by key: every candidate becomes a record
merge_one_append(index, tip, t, ups) == Append(index, tip)

\* merge_one putting the candidate in the place of the tip it matches
merge_one_replace(index, tip, t, ups) ==
    LET pos == index_pos(index, tip_key(tip))
    IN  IF pos = {} THEN Append(index, tip)
        ELSE [index EXCEPT ![CHOOSE q \in pos : TRUE] = tip]

\* one iteration of the loop over new_tips, the ties in `ups` rounding up
merge_one(index, tip, t, ups) ==
    LET pos == index_pos(index, tip_key(tip))
    IN  IF pos = {} THEN Append(index, tip)
        ELSE LET p == CHOOSE q \in pos : TRUE
                 existing_tip == index[p]
             IN  [index EXCEPT ![p] =
                     [existing_tip EXCEPT
                         !.confidence = round_with(ups, blend(existing_tip.confidence,
                                                              tip.confidence)),
                         !.task_signature = IF tip.task_signature # <<>>
                                            THEN tip.task_signature
                                            ELSE existing_tip.task_signature,
                         !.task = tip.task,
                         !.last_used = t,
                         !.domain = tip.domain]]

RECURSIVE merge_all(_, _, _, _, _)
\* the loop over new_tips from its k-th element on
merge_all(index, new_tips, k, t, ups) ==
    IF k > Len(new_tips) THEN index
    ELSE merge_all(merge_one(index, new_tips[k], t, ups), new_tips, k + 1, t, ups)

RECURSIVE chain_ties(_, _)
\* the tied values met when a tip whose confidence is one of `confs` is blended
\* with the candidate confidences `rest`, one after the other
chain_ties(confs, rest) ==
    IF rest = <<>> THEN {}
    ELSE LET values == {blend(c, Head(rest)) : c \in confs}
         IN  {v \in values : IsTie(v)}
             \cup chain_ties(UNION {round_choices(v) : v \in values}, Tail(rest))

\* the tied values the loop over new_tips can meet
merge_ties(index, new_tips) ==
    UNION { LET pos == index_pos(index, key)
                SameKey(tip) == tip_key(tip) = key
                same == SelectSeq(new_tips, SameKey)
                confs == [k \in 1..Len(same) |-> same[k].confidence]
            IN  IF pos = {} THEN chain_ties({Head(confs)}, Tail(confs))
                ELSE chain_ties({index[p].confidence : p \in pos}, confs)
            : key \in {tip_key(new_tips[k]) : k \in 1..Len(new_tips)} }

DecayFloor == 50

DecayPerDay == 2

\* no decay: the factor 1.0 whatever days_old is
decay_factor_one(days_old) == 100

\* 1 - 0.02*days_old without the floor of 0.5
decay_factor_unfloored(days_old) == 100 - DecayPerDay * days_old

\* max(0.5, 1 - 0.02*days_old), in hundredths
decay_factor(days_old) == Max(DecayFloor, 100 - DecayPerDay * days_old)

MinConfidence == 10

MaxConfidence == 100

\* max(0.1, confidence * decay_factor), in ten-thousandths
decayed_value(tip, t) ==
    Max(MinConfidence * 100, tip.confidence * decay_factor(days_between(tip.last_used, t)))

\* the possible results of _apply_decay at instant t: equal values round alike
apply_decay(tips, t) ==
    LET ties == {v \in {decayed_value(tips[i], t) : i \in 1..Len(tips)} : IsTie(v)}
    IN  { [i \in 1..Len(tips) |->
              [tips[i] EXCEPT !.confidence = round_with(ups, decayed_value(tips[i], t))]]
          : ups \in SUBSET ties }

RECURSIVE insert_by_confidence(_, _)
\* x goes before the first element whose confidence is not above its own
insert_by_confidence(x, sorted) ==
    IF sorted = <<>> THEN <<x>>
    ELSE IF Head(sorted).confidence > x.confidence
         THEN <<Head(sorted)>> \o insert_by_confidence(x, Tail(sorted))
         ELSE <<x>> \o sorted

RECURSIVE sort_by_confidence(_)
\* tips.sort(key=confidence, reverse=True): stable, descending
sort_by_confidence(tips) ==
    IF tips = <<>> THEN <<>>
    ELSE insert_by_confidence(Head(tips), sort_by_confidence(Tail(tips)))

PruneBelow == 20

MaxTips == 20

IsKept(t) == t.confidence >= PruneBelow

\* prune_tips without the [:20] slice
prune_tips_uncapped(tips) == sort_by_confidence(SelectSeq(tips, IsKept))

\* prune_tips without the sort: the first twenty that pass the threshold
prune_tips_unsorted(tips) == Take(SelectSeq(tips, IsKept), MaxTips)

prune_tips(tips) == Take(sort_by_confidence(SelectSeq(tips, IsKept)), MaxTips)

\* the possible values of `merged` in _update_active_tips after _apply_decay
decay_merged(existing, new_tips, t) ==
    LET index == build_index(existing, Len(existing))
    IN  UNION { apply_decay(merge_all(index, new_tips, 1, t, ups), t)
                : ups \in SUBSET merge_ties(index, new_tips) }

\* the possible values of playbook["active_tips"] after _update_active_tips
update_active_tips(existing, new_tips, t) ==
    { prune_tips(d) : d \in decay_merged(existing, new_tips, t) }

MaxPreferences == 12

RECURSIVE append_new(_, _, _)
append_new(existing, new_prefs, k) ==
    IF k > Len(new_prefs) THEN existing
    ELSE append_new(IF new_prefs[k] # <<>> /\ new_prefs[k] \notin Range(existing)
                    THEN Append(existing, new_prefs[k]) ELSE existing,
                    new_prefs, k + 1)

\* _update_preferences keeping the newest twelve
update_preferences_newest(existing, new_prefs) ==
    Last(append_new(existing, new_prefs, 1), MaxPreferences)

update_preferences(existing, new_prefs) ==
    Take(append_new(existing, new_prefs, 1), MaxPreferences)

-----------------------------------------------------------------------------
(* Feedback                                                                 *)

FeedbackStep == 5

\* feedback_tip without min(1.0, ...) and max(0.1, ...)
feedback_tip_unclamped(tip, goal_status) ==
    IF goal_status = "success"
    THEN [tip EXCEPT !.helpful_count = @ + 1, !.confidence = @ + FeedbackStep]
    ELSE IF goal_status \in {"failed", "blocked"}
         THEN [tip EXCEPT !.harmful_count = @ + 1, !.confidence = @ - FeedbackStep]
         ELSE tip

\* feedback_tip with "blocked" left out of the harmful statuses
feedback_tip_failed_only(tip, goal_status) ==
    IF goal_status = "success"
    THEN [tip EXCEPT !.helpful_count = @ + 1,
                     !.confidence = Min(MaxConfidence, @ + FeedbackStep)]
    ELSE IF goal_status \in {"failed"}
         THEN [tip EXCEPT !.harmful_count = @ + 1,
                          !.confidence = Max(MinConfidence, @ - FeedbackStep)]
         ELSE tip

feedback_tip(tip, goal_status) ==
    IF goal_status = "success"
    THEN [tip EXCEPT !.helpful_count = @ + 1,
                     !.confidence = Min(MaxConfidence, @ + FeedbackStep)]
    ELSE IF goal_status \in {"failed", "blocked"}
         THEN [tip EXCEPT !.harmful_count = @ + 1,
                          !.confidence = Max(MinConfidence, @ - FeedbackStep)]
         ELSE tip

\* update_tip_feedback without the test `tid in used_tip_ids`
update_tip_feedback_all(tips, used, goal_status) ==
    IF used = <<>> THEN tips
    ELSE [i \in 1..Len(tips) |-> feedback_tip(tips[i], goal_status)]

\* _update_tip_feedback with the membership test turned round
update_tip_feedback_unmatched(tips, used, goal_status) ==
    IF used = <<>> THEN tips
    ELSE [i \in 1..Len(tips) |->
            IF tip_key(tips[i]) \notin Range(used)
            THEN feedback_tip(tips[i], goal_status)
            ELSE tips[i]]

\* the active tips after _update_tip_feedback
update_tip_feedback(tips, used, goal_status) ==
    IF used = <<>> THEN tips
    ELSE [i \in 1..Len(tips) |->
            IF tip_key(tips[i]) \in Range(used)
            THEN feedback_tip(tips[i], goal_status)
            ELSE tips[i]]

-----------------------------------------------------------------------------
(* Retrieval and overlay                                                    *)

\* sim*0.6 + confidence*0.4 as the fraction <<numerator, denominator>>
score_of(tip, signature) ==
    LET sim == IF signature # <<>> THEN similarity(signature, tip.task_signature)
               ELSE <<0, 1>>
    IN  <<600 * sim[1] + 4 * tip.confidence * sim[2], 1000 * sim[2]>>

\* a > b on fractions with positive denominators
frac_gt(a, b) == a[1] * b[2] > b[1] * a[2]

\* a >= b on fractions with positive denominators
frac_ge(a, b) == a[1] * b[2] >= b[1] * a[2]

\* the score a tip needs to be selected: 0.2
MinScore == <<1, 5>>

MaxSelected == 8

FallbackSelected == 5

RECURSIVE insert_by_score(_, _, _, _)
insert_by_score(i, sorted, tips, signature) ==
    IF sorted = <<>> THEN <<i>>
    ELSE IF frac_gt(score_of(tips[Head(sorted)], signature), score_of(tips[i], signature))
         THEN <<Head(sorted)>> \o insert_by_score(i, Tail(sorted), tips, signature)
         ELSE <<i>> \o sorted

RECURSIVE sort_by_score(_, _, _)
\* scored.sort(key=score, reverse=True) on positions of `tips`: stable, descending
sort_by_score(positions, tips, signature) ==
    IF positions = <<>> THEN <<>>
    ELSE insert_by_score(Head(positions),
                         sort_by_score(Tail(positions), tips, signature), tips, signature)

\* select_positions whose fallback ranks every tip, not only the eligible ones
select_positions_fallback_all(tips, current_task, domain) ==
    LET signature == signature_of(current_task)
        IsEligible(i) == tips[i].domain \in {domain, GlobalDomain}
        IsAbove(i) == frac_ge(score_of(tips[i], signature), MinScore)
        scored == sort_by_score(SelectSeq([i \in 1..Len(tips) |-> i], IsEligible),
                                tips, signature)
        top == Take(SelectSeq(scored, IsAbove), MaxSelected)
    IN  IF top # <<>> THEN top
        ELSE Take(sort_by_score([i \in 1..Len(tips) |-> i], tips, signature),
                  FallbackSelected)

\* select_positions without the cut at eight
select_positions_uncapped(tips, current_task, domain) ==
    LET signature == signature_of(current_task)
        IsEligible(i) == tips[i].domain \in {domain, GlobalDomain}
        IsAbove(i) == frac_ge(score_of(tips[i], signature), MinScore)
        scored == sort_by_score(SelectSeq([i \in 1..Len(tips) |-> i], IsEligible),
                                tips, signature)
        top == SelectSeq(scored, IsAbove)
    IN  IF top # <<>> THEN top ELSE Take(scored, FallbackSelected)

\* the positions in `tips` of the tips _select_tips picks, in the order returned
select_positions(tips, current_task, domain) ==
    LET signature == signature_of(current_task)
        IsEligible(i) == tips[i].domain \in {domain, GlobalDomain}
        IsAbove(i) == frac_ge(score_of(tips[i], signature), MinScore)
        scored == sort_by_score(SelectSeq([i \in 1..Len(tips) |-> i], IsEligible),
                                tips, signature)
        top == Take(SelectSeq(scored, IsAbove), MaxSelected)
    IN  IF top # <<>> THEN top ELSE Take(scored, FallbackSelected)

\* _select_tips without the refresh of last_used
select_tips_untouched(tips, current_task, domain, t) ==
    IF tips = <<>>
    THEN { [top |-> <<>>, decayed |-> tips, active_tips |-> tips, saved |-> FALSE] }
    ELSE LET top == select_positions(tips, current_task, domain)
         IN  { [top |-> [k \in 1..Len(top) |-> d[top[k]]],
                decayed |-> d,
                active_tips |-> prune_tips(d),
                saved |-> TRUE] : d \in apply_decay(tips, t) }

\* the possible outcomes of _select_tips: the returned tips (the selected dicts as
\* the decay pass leaves them), the new active tips, and whether the store was saved
select_tips(tips, current_task, domain, t) ==
    IF tips = <<>>
    THEN { [top |-> <<>>, decayed |-> tips, active_tips |-> tips, saved |-> FALSE] }
    ELSE LET top == select_positions(tips, current_task, domain)
             touched == [i \in 1..Len(tips) |->
                            IF i \in Range(top) THEN [tips[i] EXCEPT !.last_used = t]
                            ELSE tips[i]]
         IN  { [top |-> [k \in 1..Len(top) |-> d[top[k]]],
                decayed |-> d,
                active_tips |-> prune_tips(d),
                saved |-> TRUE] : d \in apply_decay(touched, t) }

TipsHeader == <<"A","C","E"," ","c","u","r","a","t","e","d"," ","t","i","p","s"," ","(","r","e","c","e","n","t",","," ","m","a","t","c","h","e","d",")",":">>

PreferencesHeader == <<"U","s","e","r"," ","p","r","e","f","e","r","e","n","c","e","s"," ","t","o"," ","r","e","s","p","e","c","t",":">>

GuardrailsHeader == <<"G","u","a","r","d","r","a","i","l","s",":">>

guardrail_notes ==
    << <<"D","o"," ","n","o","t"," ","s","t","o","r","e"," ","s","e","c","r","e","t","s",","," ","t","o","k","e","n","s",","," ","s","e","s","s","i","o","n"," ","d","a","t","a",","," ","e","m","a","i","l","s",","," ","o","r"," ","U","R","L","s"," ","w","i","t","h"," ","q","u","e","r","y"," ","p","a","r","a","m","e","t","e","r","s",".">>,
       <<"S","u","m","m","a","r","i","e","s"," ","s","h","o","u","l","d"," ","f","o","c","u","s"," ","o","n"," ","b","e","h","a","v","i","o","r","s"," ","a","n","d"," ","s","t","e","p","s",","," ","n","o","t"," ","r","a","w"," ","s","c","r","a","p","e","d"," ","c","o","n","t","e","n","t",".">>,
       <<"U","s","e","r","-","s","u","p","p","l","i","e","d"," ","p","r","e","f","e","r","e","n","c","e","s"," ","a","r","e"," ","a","l","l","o","w","e","d"," ","a","n","d"," ","s","h","o","u","l","d"," ","b","e"," ","p","r","e","s","e","r","v","e","d",".">> >>

OverlayPreferences == 5

Bullet(text) == <<"-", " ">> \o text

\* the list `lines` with every preference listed
overlay_lines_all_preferences(tips, preferences, notes) ==
    (IF tips # <<>>
     THEN <<TipsHeader>> \o [k \in 1..Len(tips) |-> Bullet(tips[k].tip)]
     ELSE <<>>)
    \o (IF preferences # <<>>
        THEN <<PreferencesHeader>>
             \o [k \in 1..Len(preferences) |-> Bullet(preferences[k])]
        ELSE <<>>)
    \o (IF notes # <<>>
        THEN <<GuardrailsHeader>> \o [k \in 1..Len(notes) |-> Bullet(notes[k])]
        ELSE <<>>)

\* the list `lines` of prompt_overlay, for the notes of the loaded guardrails
overlay_lines_with(tips, preferences, notes) ==
    (IF tips # <<>>
     THEN <<TipsHeader>> \o [k \in 1..Len(tips) |-> Bullet(tips[k].tip)]
     ELSE <<>>)
    \o (IF preferences # <<>>
        THEN <<PreferencesHeader>>
             \o [k \in 1..Len(Take(preferences, OverlayPreferences)) |-> Bullet(preferences[k])]
        ELSE <<>>)
    \o (IF notes # <<>>
        THEN <<GuardrailsHeader>> \o [k \in 1..Len(notes) |-> Bullet(notes[k])]
        ELSE <<>>)

\* the list `lines` of prompt_overlay under the default guardrails
overlay_lines(tips, preferences) == overlay_lines_with(tips, preferences, guardrail_notes)

-----------------------------------------------------------------------------
(* record_run: sanitizing and building the entry                            *)

DictStrCut == 500

DictOtherCut == 200

ActionOtherCut == 300

\* A dict value is [t |-> "str" | "num" | "none" | "other", v |-> str(value)].
sanitize_dict(data) ==
    [k \in {x \in DOMAIN data : data[x].t # "none"} |->
        IF data[k].t = "str"
        THEN [t |-> "str", v |-> Take(sanitized(data[k].v), DictStrCut)]
        ELSE IF data[k].t = "num"
             THEN data[k]
             ELSE [t |-> "str", v |-> Take(data[k].v, DictOtherCut)]]

\* An action is [kind |-> "dict", d |-> ...], [kind |-> "str", v |-> ...] or
\* [kind |-> "other", v |-> str(act)].
sanitize_action(act) ==
    IF act.kind = "dict" THEN sanitize_dict(act.d)
    ELSE IF act.kind = "str"
         THEN [k \in {"message"} |-> [t |-> "str", v |-> sanitized(act.v)]]
         ELSE [k \in {"message"} |-> [t |-> "str", v |-> Take(act.v, ActionOtherCut)]]

\* the default answer_relevance_score, in hundredths
default_relevance(goal_status, errors) ==
    IF goal_status = "success" THEN (IF errors = <<>> THEN 90 ELSE 75)
    ELSE IF goal_status = "partial" THEN 60
         ELSE IF goal_status \in {"failed", "blocked"} THEN 20
              ELSE 50

KeptActions == 50

KeptErrors == 25

KeptPreferences == 10

IsNotBlank(p) == strip(p) # <<>>

sanitized_entry(task, outcome, actions, errors, preferences, goal_status, reason_for_status, used, domain, t) ==
    [ task |-> sanitized(task),
      outcome |-> sanitized(outcome),
      actions |-> Last([k \in 1..Len(actions) |-> sanitize_action(actions[k])], KeptActions),
      errors |-> Last([k \in 1..Len(errors) |-> sanitized(errors[k])], KeptErrors),
      preferences |->
          Take([k \in 1..Len(SelectSeq(preferences, IsNotBlank)) |->
                   sanitized(SelectSeq(preferences, IsNotBlank)[k])], KeptPreferences),
      timestamp |-> t,
      signature |-> signature_of(task),
      goal_status |-> goal_status,
      reason_for_status |-> reason_for_status,
      answer_relevance_score |-> default_relevance(goal_status, errors),
      used_tip_ids |-> used,
      domain |-> domain ]

-----------------------------------------------------------------------------
(* Reflector                                                                *)

RECURSIVE splitlines_from(_, _)
splitlines_from(s, i) ==
    IF i > Len(s) THEN <<>>
    ELSE LET e == RunEndNotIn(s, i, {"\n"})
         IN  <<SubSeq(s, i, e)>> \o splitlines_from(s, e + 2)

\* str.splitlines(), for texts whose only line break is "\n"
splitlines(s) == splitlines_from(s, 1)

\* the characters of "- \u2022\u2022 "; the element "U+2022" stands for the bullet character
BulletChars == {"-", " ", "U+2022"}

ReflectCut == 280

MaxReflected == 3

ReflectConfidence == 60

clean_line(line) == strip(strip_chars(line, BulletChars))

IsTipLine(line) == clean_line(line) # <<>>

\* reply is [ok |-> FALSE] when the call raises, else [ok |-> TRUE, text |-> content]
\* _reflect_on_entry letting the failure out as a tip
reflect_on_entry_failure_tip(client, entry, reply, t) ==
    IF ~client THEN <<>>
    ELSE IF ~reply.ok
         THEN << tip_obj(<<"r","e","f","l","e","c","t","i","o","n"," ","f","a","i","l","e","d">>,
                         entry.signature, entry.task, ReflectConfidence, entry.domain, t) >>
         ELSE LET lines == Take(SelectSeq(splitlines(reply.text), IsTipLine), MaxReflected)
              IN  [k \in 1..Len(lines) |->
                     tip_obj(Take(clean_line(lines[k]), ReflectCut), entry.signature,
                             entry.task, ReflectConfidence, entry.domain, t)]

reflect_on_entry(client, entry, reply, t) ==
    IF ~client \/ ~reply.ok THEN <<>>
    ELSE LET lines == Take(SelectSeq(splitlines(reply.text), IsTipLine), MaxReflected)
         IN  [k \in 1..Len(lines) |->
                tip_obj(Take(clean_line(lines[k]), ReflectCut), entry.signature, entry.task,
                        ReflectConfidence, entry.domain, t)]

-----------------------------------------------------------------------------
(* The store, one caller at a time                                          *)

DEFAULT_PLAYBOOK == [entries |-> <<>>, active_tips |-> <<>>, preferences |-> <<>>]

\* DEFAULT_PLAYBOOK after an append to playbook["entries"]: dict(DEFAULT_PLAYBOOK)
\* copies the dict and not its lists, so a store loaded from a missing document
\* appends to the list of the module
after_append(d, entries) ==
    IF d.aliased THEN [d EXCEPT !.playbook = [@ EXCEPT !.entries = entries]] ELSE d

\* a history that keeps the latest entry only
append_entry_latest(entries, entry) == <<entry>>

\* self.playbook.setdefault("entries", []).append(sanitized_entry)
append_entry(entries, entry) == Append(entries, entry)

Idle == [phase |-> "idle"]

\* the monitor runner threads, all sharing ace_manager
Threads == 1..MaxThreads

NoLocals == [used_tip_ids |-> <<>>]

\* ACEManager() on a missing playbook document
Init ==
    /\ playbook = DEFAULT_PLAYBOOK
    /\ disk = DEFAULT_PLAYBOOK
    /\ now = 0
    /\ call = [op |-> "init"]
    /\ used_tip_ids = <<>>
    /\ has_client \in BOOLEAN
    /\ runs = 0
    /\ overlays = 0
    /\ ticks = 0
    /\ san = Idle
    /\ pc = [t \in Threads |-> "idle"]
    /\ local = [t \in Threads |-> NoLocals]
    /\ ace_module = [playbook |-> DEFAULT_PLAYBOOK, aliased |-> TRUE]

\* ACEManager.record_run(task, outcome, actions, errors, preferences, goal_status,
\* reason_for_status, None, used_tip_ids, domain); the caller passes the ids of its
\* last prompt_overlay or none
RecordRun(inp) ==
    LET sc == inp.sc
        used == IF inp.pass_ids THEN used_tip_ids ELSE <<>>
        entry == sanitized_entry(sc.task, sc.outcome, sc.actions, sc.errors,
                                 sc.preferences, inp.goal_status, inp.reason_for_status,
                                 used, sc.domain, now)
        curated_tips == curate_entry(entry, sc.domain, now)
        reflected_tips == reflect_on_entry(has_client, entry, inp.reply, now)
        all_new_tips == curated_tips \o reflected_tips
    IN  /\ \E decayed \in decay_merged(playbook.active_tips, all_new_tips, now) :
          LET merged == prune_tips(decayed) IN
            /\ playbook' =
                   [ entries |-> append_entry(playbook.entries, entry),
                     active_tips |-> update_tip_feedback(merged, used, inp.goal_status),
                     preferences |-> update_preferences(playbook.preferences,
                                                        entry.preferences) ]
            /\ call' = [ op |-> "record_run", task |-> sc.task, outcome |-> sc.outcome,
                         actions |-> sc.actions, errors |-> sc.errors,
                         preferences |-> sc.preferences,
                         goal_status |-> inp.goal_status,
                         reason_for_status |-> inp.reason_for_status,
                         used_tip_ids |-> used, domain |-> sc.domain,
                         before |-> playbook.active_tips,
                         curated |-> curated_tips, reflected |-> reflected_tips,
                         decayed |-> decayed, at |-> now,
                         merged |-> merged, reply |-> inp.reply,
                         returned |-> [tips |-> all_new_tips,
                                       preferences |-> entry.preferences] ]
        /\ disk' = playbook'
        /\ ace_module' = after_append(ace_module, playbook'.entries)
        /\ runs' = runs + 1
        /\ UNCHANGED <<now, used_tip_ids, has_client, overlays, ticks, san, pc, local>>

\* what ACEManager.prompt_overlay(current_task, domain) does to the store; the
\* caller keeps the returned ids
PromptOverlayReturns(current_task, domain) ==
    /\ \E sel \in select_tips(playbook.active_tips, current_task, domain, now) :
          LET lines == overlay_lines(sel.top, playbook.preferences)
              ids == [k \in 1..Len(sel.top) |-> tip_key(sel.top[k])]
          IN  /\ playbook' = [playbook EXCEPT !.active_tips = sel.active_tips]
              /\ disk' = IF sel.saved THEN playbook' ELSE disk
              /\ used_tip_ids' = ids
              /\ call' = [ op |-> "prompt_overlay", task |-> current_task,
                           domain |-> domain, before |-> playbook.active_tips,
                           decayed |-> sel.decayed, at |-> now,
                           top |-> sel.top, lines |-> lines,
                           overlay |-> join(<<"\n">>, lines), ids |-> ids ]
    /\ UNCHANGED <<now, has_client, runs, ticks, san, pc, local, ace_module>>

\* ACEManager.prompt_overlay(current_task, domain), counted
PromptOverlay(current_task, domain) ==
    /\ PromptOverlayReturns(current_task, domain)
    /\ overlays' = overlays + 1

\* time passes between calls
Tick(dt) ==
    /\ now' = now + dt
    /\ ticks' = ticks + 1
    /\ UNCHANGED <<playbook, disk, call, used_tip_ids, has_client, runs, overlays, san, pc, local, ace_module>>

DoRecordRun == runs < MaxRuns /\ \E inp \in RunInputs : RecordRun(inp)

DoPromptOverlay ==
    overlays < MaxOverlays /\ \E inp \in OverlayInputs : PromptOverlay(inp.task, inp.domain)

DoTick == ticks < MaxTicks /\ \E dt \in TickSteps : Tick(dt)

Next == DoRecordRun \/ DoPromptOverlay \/ DoTick

Spec == Init /\ [][Next]_vars

-----------------------------------------------------------------------------
(* Construction: _load_playbook and _migrate_playbook.  The playbook         *)
(* document is modelled by what json.loads gives for it: an object is a      *)
(* record, and json.dumps of the store read back is the store.  A tip that   *)
(* an older format kept as a bare string is [str |-> text].                  *)

DefaultDomain == <<"d","e","f","a","u","l","t">>

\* playbook_path does not exist
NoDocument == [exists |-> FALSE]

\* a document json.loads raises on
UnparseableDocument == [unparseable |-> TRUE]

LegacyTipText == <<"s","c","r","o","l","l"," ","b","e","f","o","r","e"," ","e","x","t","r","a","c","t","i","n","g">>

PartialTipText == <<"w","a","i","t"," ","f","o","r"," ","t","h","e"," ","p","r","i","c","e"," ","t","a","b","l","e">>

\* the oldest format: only a list of tip strings
LegacyDocument == [active_tips |-> << [str |-> LegacyTipText] >>]

\* an older format: structured tips without id, counters, signature and dates
PartialDocument ==
    [ entries |-> <<>>,
      active_tips |-> << [tip |-> PartialTipText, confidence |-> 80, domain |-> D1],
                         [str |-> LegacyTipText] >>,
      preferences |-> <<PrefBrief>> ]

\* an object without any of the keys
EmptyObjectDocument == [note |-> <<"v","1">>]

Documents ==
    {NoDocument, UnparseableDocument, LegacyDocument, PartialDocument, EmptyObjectDocument}

\* valid JSON that is not an object: an array
ArrayDocument == [other |-> "array"]

\* active_tips holding a number only
JunkTipsDocument == [active_tips |-> << [other |-> "number"] >>]

\* active_tips holding a number and a tip string
MixedTipsDocument == [active_tips |-> << [other |-> "number"], [str |-> LegacyTipText] >>]

MalformedDocuments == {ArrayDocument, JunkTipsDocument, MixedTipsDocument}

\* data.setdefault on what json.loads gave, when that is not a dict
load_raises(doc) == "other" \in DOMAIN doc

\* no ACEManager yet
NotConstructed == [constructed |-> FALSE]

\* _load_playbook: the loaded dict and the document it leaves
load_playbook(doc, default_playbook) ==
    IF doc = NoDocument
    THEN [data |-> default_playbook, disk |-> default_playbook]
    ELSE LET data == IF "unparseable" \in DOMAIN doc THEN <<>> ELSE doc
         IN  [ data |-> [k \in DOMAIN data \cup DOMAIN default_playbook |->
                            IF k \in DOMAIN data THEN data[k] ELSE default_playbook[k]],
               disk |-> doc ]

LegacyConfidence == 60

\* isinstance(tip, str)
IsStrTip(tip) == "str" \in DOMAIN tip

\* isinstance(tip, dict)
IsDictTip(tip) == ~IsStrTip(tip) /\ "other" \notin DOMAIN tip

\* dict.setdefault over the keys of `defaults`
setdefaults(d, defaults) ==
    [k \in DOMAIN d \cup DOMAIN defaults |-> IF k \in DOMAIN d THEN d[k] ELSE defaults[k]]

\* the loop of _migrate_playbook without the setdefault calls on a dict
migrate_tip_dict_untouched(tip, t) ==
    IF IsStrTip(tip)
    THEN [ tip |-> tip.str,
           confidence |-> LegacyConfidence,
           task_signature |-> <<>>,
           task |-> <<>>,
           created_at |-> t,
           last_used |-> t,
           domain |-> DefaultDomain,
           helpful_count |-> 0,
           harmful_count |-> 0,
           id |-> tip_id(tip.str, DefaultDomain) ]
    ELSE tip

\* one element of the loop of _migrate_playbook (a string or a dict)
migrate_tip(tip, t) ==
    IF IsStrTip(tip)
    THEN [ tip |-> tip.str,
           confidence |-> LegacyConfidence,
           task_signature |-> <<>>,
           task |-> <<>>,
           created_at |-> t,
           last_used |-> t,
           domain |-> DefaultDomain,
           helpful_count |-> 0,
           harmful_count |-> 0,
           id |-> tip_id(tip.str, DefaultDomain) ]
    ELSE LET with_domain ==
                 setdefaults(tip, [ confidence |-> LegacyConfidence,
                                    task_signature |-> <<>>,
                                    task |-> <<>>,
                                    created_at |-> t,
                                    last_used |-> t,
                                    domain |-> DefaultDomain,
                                    helpful_count |-> 0,
                                    harmful_count |-> 0 ])
         IN  setdefaults(with_domain,
                         [id |-> tip_id(IF "tip" \in DOMAIN tip THEN tip.tip ELSE <<>>,
                                        with_domain.domain)])

IsMigratable(tip) == IsStrTip(tip) \/ IsDictTip(tip)

\* _migrate_playbook unsaved: the migrated tips are stored but not written
migrate_playbook_unsaved(pb, t) ==
    LET kept == SelectSeq(pb.active_tips, IsMigratable)
        migrated == [k \in 1..Len(kept) |-> migrate_tip(kept[k], t)]
    IN  IF migrated # <<>>
        THEN [playbook |-> [pb EXCEPT !.active_tips = migrated], saved |-> FALSE]
        ELSE [playbook |-> pb, saved |-> FALSE]

\* _migrate_playbook: the store it leaves and whether it saved it
migrate_playbook(pb, t) ==
    LET kept == SelectSeq(pb.active_tips, IsMigratable)
        migrated == [k \in 1..Len(kept) |-> migrate_tip(kept[k], t)]
    IN  IF migrated # <<>>
        THEN [playbook |-> [pb EXCEPT !.active_tips = migrated], saved |-> TRUE]
        ELSE [playbook |-> pb, saved |-> FALSE]

\* before ACEManager(): some playbook document, or none
InitLoad ==
    /\ playbook = NotConstructed
    /\ disk \in Documents
    /\ now = 0
    /\ call = [op |-> "init"]
    /\ used_tip_ids = <<>>
    /\ has_client \in BOOLEAN
    /\ runs = 0
    /\ overlays = 0
    /\ ticks = 0
    /\ san = Idle
    /\ pc = [t \in Threads |-> "idle"]
    /\ local = [t \in Threads |-> NoLocals]
    /\ ace_module = [playbook |-> DEFAULT_PLAYBOOK, aliased |-> FALSE]

\* ACEManager(path) where the document at path is doc: _load_playbook, then
\* _migrate_playbook; the new manager is the one used from then on
ConstructFrom(doc) ==
    /\ LET loaded == load_playbook(doc, ace_module.playbook)
           migration == migrate_playbook(loaded.data, now)
       IN  /\ playbook' = migration.playbook
           /\ disk' = IF migration.saved THEN migration.playbook ELSE loaded.disk
           /\ call' = [op |-> "construct", document |-> doc, loaded |-> loaded.data]
    /\ ace_module' = [ace_module EXCEPT !.aliased = (doc = NoDocument)]
    /\ UNCHANGED <<now, used_tip_ids, has_client, runs, overlays, ticks, san, pc, local>>

\* the first ACEManager() of the process
Construct ==
    /\ playbook = NotConstructed
    /\ ~load_raises(disk)
    /\ ConstructFrom(disk)

\* a further ACEManager(path) in the same process, on a path that does not exist
Reconstruct ==
    /\ playbook # NotConstructed
    /\ ConstructFrom(NoDocument)

\* the calls of record_run made on a loaded store
LoadedRunInputs ==
    { RunInput(SpecRun, "partial", NoReason, FALSE),
      RunInput(SpecRun, "blocked", ReasonCaptcha, TRUE),
      RunInput(ActionRun, "partial", ReasonTimeout, FALSE) }

DoLoadedRecordRun ==
    /\ playbook # NotConstructed
    /\ runs < MaxRuns
    /\ \E inp \in LoadedRunInputs : RecordRun(inp)

DoLoadedPromptOverlay ==
    /\ playbook # NotConstructed
    /\ overlays < MaxOverlays
    /\ \E inp \in OverlayInputs : PromptOverlay(inp.task, inp.domain)

\* the reflection calls that fail or answer without a tip
FailedReplies == {ReplyRaises, ReplyNoChoices, ReplyNoContent, ReplyBlank}

ReflectRunInputs ==
    { [inp EXCEPT !.reply = r] : inp \in LoadedRunInputs, r \in FailedReplies \cup {ReplyTips} }

DoReflectRecordRun == runs < MaxRuns /\ \E inp \in ReflectRunInputs : RecordRun(inp)

NextReflect == DoReflectRecordRun \/ DoPromptOverlay \/ DoTick

SpecReflect == Init /\ [][NextReflect]_vars

DoPrefsRecordRun == runs < MaxPrefRuns /\ \E inp \in PrefRunInputs : RecordRun(inp)

NextPrefs == DoPrefsRecordRun \/ DoPromptOverlay \/ DoTick

SpecPrefs == Init /\ [][NextPrefs]_vars

NextRebuild == DoLoadedRecordRun \/ DoLoadedPromptOverlay \/ DoTick \/ Reconstruct

SpecRebuild == Init /\ [][NextRebuild]_vars

DoLongRecordRun == runs < MaxRuns /\ \E inp \in LongRunInputs : RecordRun(inp)

NextLong == DoLongRecordRun \/ DoPromptOverlay \/ DoTick

SpecLong == Init /\ [][NextLong]_vars

NextLoad == Construct \/ DoLoadedRecordRun \/ DoLoadedPromptOverlay \/ DoTick

SpecLoad == InitLoad /\ [][NextLoad]_vars

-----------------------------------------------------------------------------
(* _sanitize_text on its own                                                *)

Fragments ==
    { <<"p","a","s","s","w","o","r","d">>,
      <<"P","A","S","S","W","O","R","D">>,
      <<"T","o","k","e","n">>,
      <<"s","e","c","r","e","t">>,
      <<" ","i","s"," ">> }

RECURSIVE Texts(_)
\* the texts made of at most n fragments
Texts(n) ==
    IF n = 0 THEN {<<>>}
    ELSE Texts(n - 1) \cup {t \o f : t \in Texts(n - 1), f \in Fragments}

\* a caller about to hand a text to _sanitize_text
InitSanitize ==
    /\ playbook = DEFAULT_PLAYBOOK
    /\ disk = DEFAULT_PLAYBOOK
    /\ now = 0
    /\ call = [op |-> "init"]
    /\ used_tip_ids = <<>>
    /\ has_client = FALSE
    /\ runs = 0
    /\ overlays = 0
    /\ ticks = 0
    /\ san \in {[phase |-> "called", text |-> t] : t \in Texts(MaxFragments)}
    /\ pc = [t \in Threads |-> "idle"]
    /\ local = [t \in Threads |-> NoLocals]
    /\ ace_module = [playbook |-> DEFAULT_PLAYBOOK, aliased |-> TRUE]

\* ACEManager._sanitize_text(text) returns
SanitizeText ==
    /\ san.phase = "called"
    /\ san' = [phase |-> "returned", text |-> san.text, out |-> sanitize_text(san.text)]
    /\ UNCHANGED <<playbook, disk, now, call, used_tip_ids, has_client, runs, overlays,
                   ticks, pc, local, ace_module>>

NextSanitize == SanitizeText

SpecSanitize == InitSanitize /\ [][NextSanitize]_vars

-----------------------------------------------------------------------------
(* _task_signature on its own                                               *)

TaskWords ==
    { <<"c","h","e","c","k"," ">>,
      <<"C","h","e","c","k",",">>,
      <<"t","h","e"," ">>,
      <<"p","a","g","e","2","-">>,
      <<" "," ">> }

MaxTaskWords == 3

RECURSIVE TaskTexts(_)
\* the task texts made of at most n of the words
TaskTexts(n) ==
    IF n = 0 THEN {<<>>}
    ELSE TaskTexts(n - 1) \cup {t \o w : t \in TaskTexts(n - 1), w \in TaskWords}

ManyWordsLen == 14

RECURSIVE Spelled(_, _)
\* the letters k to n, each followed by a space
Spelled(k, n) == IF k > n THEN <<>> ELSE <<LowerChars[k], " ">> \o Spelled(k + 1, n)

\* a task of more words than a signature holds: "b c d ... "
ManyWordsTask == Spelled(2, ManyWordsLen + 1)

\* a caller about to hand a task to _task_signature
InitSignature ==
    /\ playbook = DEFAULT_PLAYBOOK
    /\ disk = DEFAULT_PLAYBOOK
    /\ now = 0
    /\ call \in {[op |-> "signature_args", task |-> t]
                  : t \in TaskTexts(MaxTaskWords) \cup {ManyWordsTask}}
    /\ used_tip_ids = <<>>
    /\ has_client = FALSE
    /\ runs = 0
    /\ overlays = 0
    /\ ticks = 0
    /\ san = Idle
    /\ pc = [t \in Threads |-> "idle"]
    /\ local = [t \in Threads |-> NoLocals]
    /\ ace_module = [playbook |-> DEFAULT_PLAYBOOK, aliased |-> TRUE]

\* ACEManager._task_signature(task) returns
TaskSignature ==
    /\ call.op = "signature_args"
    /\ call' = [op |-> "signature", task |-> call.task, out |-> task_signature(call.task)]
    /\ UNCHANGED <<playbook, disk, now, used_tip_ids, has_client, runs, overlays, ticks,
                   san, pc, local, ace_module>>

NextSignature == TaskSignature

MaxCounterRuns == 3

\* the same run reported with each goal_status and the ids of the last
\* prompt_overlay, and a run of another task and domain
CounterRunInputs ==
    { RunInput(SpecRun, sr.goal_status, sr.reason_for_status, TRUE) : sr \in StatusReasons }
    \cup { RunInput(ActionRun, "partial", ReasonTimeout, FALSE) }

DoCounterRecordRun == runs < MaxCounterRuns /\ \E inp \in CounterRunInputs : RecordRun(inp)

NextCounters == DoCounterRecordRun \/ DoPromptOverlay \/ DoTick

\* three runs on one store, so that a tip with feedback is observed again
SpecCounters == Init /\ [][NextCounters]_vars

MaxRestRuns == 3

MaxRestOverlays == 3

\* a run that leaves the fallback tip of the global domain, and a failed run of
\* another task that passes the ids of the caller's last prompt_overlay
RestRunInputs ==
    { RunInput(EmptyRun, "partial", ReasonNoContent, FALSE),
      RunInput(ActionRun, "failed", ReasonTimeout, TRUE) }

DoRestRecordRun == runs < MaxRestRuns /\ \E inp \in RestRunInputs : RecordRun(inp)

DoRestPromptOverlay ==
    overlays < MaxRestOverlays /\ \E inp \in OverlayInputs : PromptOverlay(inp.task, inp.domain)

DoLongTick == ticks < MaxTicks /\ Tick(25 * TicksPerDay)

NextRest == DoRestRecordRun \/ DoRestPromptOverlay \/ DoLongTick

\* a tip that is retrieved, left idle, and reported as used by failed runs
SpecRest == Init /\ [][NextRest]_vars

MaxIdleDays == 27

\* the one run that leaves tips of domain d1
DoIdleRecordRun ==
    runs < 1 /\ RecordRun(RunInput(SpecRun, "partial", NoReason, FALSE))

\* a retrieval for another domain, which selects no tip of d1
IdleRetrieval ==
    /\ PromptOverlayReturns(TaskShort, D2)
    /\ UNCHANGED overlays

IdleStepDays == 9

\* nine days pass
DaysPass == now < MaxIdleDays * TicksPerDay /\ Tick(IdleStepDays * TicksPerDay)

NextIdle == DoIdleRecordRun \/ IdleRetrieval \/ DaysPass

\* time keeps advancing and retrievals keep occurring
SpecIdle == Init /\ [][NextIdle]_vars /\ WF_vars(DaysPass) /\ WF_vars(IdleRetrieval)

SpecSignature == InitSignature /\ [][NextSignature]_vars

-----------------------------------------------------------------------------
(* Monitor runner threads on the shared ace_manager.  A thread runs          *)
(* run_agent: prompt_overlay, the agent, then record_run.  No statement of   *)
(* ace.py or of its callers takes a lock, so another thread can run between  *)
(* any two statements of record_run; the steps below are its statements that *)
(* touch the store.                                                          *)

\* the calls of record_run the monitors make, all in ACE_DOMAIN
ThreadInputs ==
    { RunInput(SpecRun, "blocked", ReasonCaptcha, TRUE),
      RunInput(RepeatRun, "failed", ReasonNoContent, TRUE),
      RunInput(ManyRun, "partial", NoReason, TRUE) }

ThreadUnchanged == UNCHANGED <<now, call, used_tip_ids, has_client, runs, overlays, ticks, san>>

\* overlay_text, used_tip_ids = ace_manager.prompt_overlay(user_input, domain=ACE_DOMAIN)
ThreadOverlay(t) ==
    /\ pc[t] = "idle"
    /\ \E inp \in ThreadInputs :
          \E sel \in select_tips(playbook.active_tips, inp.sc.task, inp.sc.domain, now) :
              /\ playbook' = [playbook EXCEPT !.active_tips = sel.active_tips]
              /\ disk' = IF sel.saved THEN playbook' ELSE disk
              /\ local' = [local EXCEPT ![t] =
                              [ used_tip_ids |-> [k \in 1..Len(sel.top) |-> tip_key(sel.top[k])],
                                inp |-> inp ]]
    /\ pc' = [pc EXCEPT ![t] = "agent"]
    /\ UNCHANGED ace_module
    /\ ThreadUnchanged

\* record_run up to self.playbook.setdefault("entries", []).append(sanitized_entry),
\* then _curate_entry and _reflect_on_entry
ThreadAppend(t) ==
    /\ pc[t] = "agent"
    /\ LET inp == local[t].inp
           sc == inp.sc
           entry == sanitized_entry(sc.task, sc.outcome, sc.actions, sc.errors,
                                    sc.preferences, inp.goal_status, inp.reason_for_status,
                                    local[t].used_tip_ids, sc.domain, now)
       IN  /\ playbook' = [playbook EXCEPT !.entries = append_entry(@, entry)]
           /\ local' = [local EXCEPT ![t] =
                           [ used_tip_ids |-> local[t].used_tip_ids,
                             inp |-> inp,
                             preferences |-> entry.preferences,
                             all_new_tips |-> curate_entry(entry, sc.domain, now)
                                 \o reflect_on_entry(has_client, entry, inp.reply, now) ]]
    /\ pc' = [pc EXCEPT ![t] = "appended"]
    /\ ace_module' = after_append(ace_module, playbook'.entries)
    /\ UNCHANGED disk
    /\ ThreadUnchanged

\* self._update_active_tips(all_new_tips)
ThreadMerge(t) ==
    /\ pc[t] = "appended"
    /\ \E merged \in update_active_tips(playbook.active_tips, local[t].all_new_tips, now) :
          playbook' = [playbook EXCEPT !.active_tips = merged]
    /\ pc' = [pc EXCEPT ![t] = "merged"]
    /\ UNCHANGED <<disk, local, ace_module>>
    /\ ThreadUnchanged

\* self._update_preferences(sanitized_entry.get("preferences", []))
ThreadPreferences(t) ==
    /\ pc[t] = "merged"
    /\ playbook' = [playbook EXCEPT
                       !.preferences = update_preferences(@, local[t].preferences)]
    /\ pc' = [pc EXCEPT ![t] = "preferences"]
    /\ UNCHANGED <<disk, local, ace_module>>
    /\ ThreadUnchanged

\* self._update_tip_feedback(used_tip_ids, goal_status), which saves if it met a used tip
ThreadFeedback(t) ==
    /\ pc[t] = "preferences"
    /\ playbook' = [playbook EXCEPT
                       !.active_tips = update_tip_feedback(@, local[t].used_tip_ids,
                                                           local[t].inp.goal_status)]
    /\ disk' = IF \E i \in 1..Len(playbook.active_tips) :
                     tip_key(playbook.active_tips[i]) \in Range(local[t].used_tip_ids)
               THEN playbook' ELSE disk
    /\ pc' = [pc EXCEPT ![t] = "feedback"]
    /\ UNCHANGED <<local, ace_module>>
    /\ ThreadUnchanged

\* self._save_playbook() and the return of record_run; of the locals only the
\* arguments the thread called with are remembered
ThreadSave(t) ==
    /\ pc[t] = "feedback"
    /\ disk' = playbook
    /\ pc' = [pc EXCEPT ![t] = "done"]
    /\ local' = [local EXCEPT ![t] = [used_tip_ids |-> <<>>, inp |-> local[t].inp]]
    /\ UNCHANGED <<playbook, ace_module>>
    /\ ThreadUnchanged

NextConc ==
    \E t \in Threads :
        \/ ThreadOverlay(t)
        \/ ThreadAppend(t)
        \/ ThreadMerge(t)
        \/ ThreadPreferences(t)
        \/ ThreadFeedback(t)
        \/ ThreadSave(t)

SpecConc == Init /\ [][NextConc]_vars

(* _save_playbook is json.dumps(self.playbook, indent=2) followed by         *)
(* Path.write_text: the document is built in memory from the store as it is  *)
(* then, and written to the file afterwards.  Nothing holds a lock over the  *)
(* two, so another thread can run between them.                              *)

\* json.dumps(self.playbook, indent=2) of record_run's closing _save_playbook
ThreadSerialize(t) ==
    /\ pc[t] = "feedback"
    /\ pc' = [pc EXCEPT ![t] = "serialized"]
    /\ local' = [local EXCEPT ![t] =
                    [ used_tip_ids |-> <<>>, inp |-> local[t].inp, document |-> playbook ]]
    /\ UNCHANGED <<playbook, disk, ace_module>>
    /\ ThreadUnchanged

\* self.playbook_path.write_text(document) and the return of record_run
ThreadWrite(t) ==
    /\ pc[t] = "serialized"
    /\ disk' = local[t].document
    /\ pc' = [pc EXCEPT ![t] = "done"]
    /\ local' = [local EXCEPT ![t] = [used_tip_ids |-> <<>>, inp |-> local[t].inp]]
    /\ UNCHANGED <<playbook, ace_module>>
    /\ ThreadUnchanged

NextDurable ==
    \E t \in Threads :
        \/ ThreadOverlay(t)
        \/ ThreadAppend(t)
        \/ ThreadMerge(t)
        \/ ThreadPreferences(t)
        \/ ThreadFeedback(t)
        \/ ThreadSerialize(t)
        \/ ThreadWrite(t)

SpecDurable == Init /\ [][NextDurable]_vars

\* the stores a whole record_run call can leave, run alone on store pb
record_run_stores(pb, inp, used, client, t) ==
    LET sc == inp.sc
        entry == sanitized_entry(sc.task, sc.outcome, sc.actions, sc.errors,
                                 sc.preferences, inp.goal_status, inp.reason_for_status,
                                 used, sc.domain, t)
        all_new_tips == curate_entry(entry, sc.domain, t)
                            \o reflect_on_entry(client, entry, inp.reply, t)
    IN  { [ entries |-> append_entry(pb.entries, entry),
            active_tips |-> update_tip_feedback(merged, used, inp.goal_status),
            preferences |-> update_preferences(pb.preferences, entry.preferences) ]
          : merged \in update_active_tips(pb.active_tips, all_new_tips, t) }

\* the stores a whole prompt_overlay call can leave, run alone on store pb, each
\* with the ids the call returns
prompt_overlay_stores(pb, current_task, domain, t) ==
    { [ playbook |-> [pb EXCEPT !.active_tips = sel.active_tips],
        used_tip_ids |-> [k \in 1..Len(sel.top) |-> tip_key(sel.top[k])] ]
      : sel \in select_tips(pb.active_tips, current_task, domain, t) }

\* run_agent's next call for thread t, run alone: its prompt_overlay when it has
\* made no call yet (done[t] = 0), then its record_run
serial_call(st, t, done) ==
    LET inp == local[t].inp
    IN  IF done[t] = 0
        THEN { [ playbook |-> r.playbook,
                 used_tip_ids |-> [st.used_tip_ids EXCEPT ![t] = r.used_tip_ids] ]
               : r \in prompt_overlay_stores(st.playbook, inp.sc.task, inp.sc.domain, now) }
        ELSE { [ playbook |-> pb, used_tip_ids |-> st.used_tip_ids ]
               : pb \in record_run_stores(st.playbook, inp, st.used_tip_ids[t],
                                          has_client, now) }

RECURSIVE serial_stores(_, _)
\* the stores the threads' calls can leave when run one whole call after the other,
\* in every order that keeps each thread's own two calls in order
serial_stores(st, done) ==
    IF \A t \in Threads : done[t] = 2 THEN {st.playbook}
    ELSE UNION { UNION { serial_stores(st2, [done EXCEPT ![t] = @ + 1])
                         : st2 \in serial_call(st, t, done) }
                 : t \in {u \in Threads : done[u] < 2} }

-----------------------------------------------------------------------------
(* A playbook write that raises.  _save_playbook is the last statement of    *)
(* record_run before its return and of _select_tips; Path.write_text opens   *)
(* the document for writing, which truncates it, and then writes: when the   *)
(* open raises the document is as it was, when the write raises it is cut.   *)

\* what a raising write_text leaves of document doc
failed_write(doc) == {doc, UnparseableDocument}

\* record_run whose _save_playbook raises: the exception leaves record_run
RecordRunRaises(inp) ==
    /\ \E pb \in record_run_stores(playbook, inp,
                                   IF inp.pass_ids THEN used_tip_ids ELSE <<>>,
                                   has_client, now) :
          playbook' = pb
    /\ disk' \in failed_write(disk)
    /\ call' = [op |-> "record_run_raised", store |-> playbook, document |-> disk]
    /\ ace_module' = after_append(ace_module, playbook'.entries)
    /\ runs' = runs + 1
    /\ UNCHANGED <<now, used_tip_ids, has_client, overlays, ticks, san, pc, local>>

\* prompt_overlay whose _save_playbook (in _select_tips) raises: nothing is returned
PromptOverlayRaises(current_task, domain) ==
    /\ \E sel \in select_tips(playbook.active_tips, current_task, domain, now) :
          /\ sel.saved
          /\ playbook' = [playbook EXCEPT !.active_tips = sel.active_tips]
    /\ disk' \in failed_write(disk)
    /\ call' = [op |-> "prompt_overlay_raised", store |-> playbook, document |-> disk]
    /\ overlays' = overlays + 1
    /\ UNCHANGED <<now, used_tip_ids, has_client, runs, ticks, san, pc, local, ace_module>>

DoRecordRunRaises == runs < MaxRuns /\ \E inp \in LoadedRunInputs : RecordRunRaises(inp)

DoPromptOverlayRaises ==
    overlays < MaxOverlays /\ \E inp \in OverlayInputs : PromptOverlayRaises(inp.task, inp.domain)

DoFewRecordRun == runs < MaxRuns /\ \E inp \in LoadedRunInputs : RecordRun(inp)

NextFail ==
    DoFewRecordRun \/ DoPromptOverlay \/ DoTick \/ DoRecordRunRaises \/ DoPromptOverlayRaises

SpecFail == Init /\ [][NextFail]_vars

-----------------------------------------------------------------------------
(* Construction from documents that are valid JSON of another shape, and    *)
(* the calls made on the store it leaves.                                   *)

\* the elements of active_tips that are dicts
dict_tips(tips) == SelectSeq(tips, IsDictTip)

\* every active tip is a dict
IsWellFormed(pb) == dict_tips(pb.active_tips) = pb.active_tips

InitMalformed ==
    /\ playbook = NotConstructed
    /\ disk \in Documents \cup MalformedDocuments
    /\ now = 0
    /\ call = [op |-> "init"]
    /\ used_tip_ids = <<>>
    /\ has_client \in BOOLEAN
    /\ runs = 0
    /\ overlays = 0
    /\ ticks = 0
    /\ san = Idle
    /\ pc = [t \in Threads |-> "idle"]
    /\ local = [t \in Threads |-> NoLocals]
    /\ ace_module = [playbook |-> DEFAULT_PLAYBOOK, aliased |-> FALSE]

\* ACEManager() whose _load_playbook raises AttributeError: there is no manager
ConstructRaises ==
    /\ playbook = NotConstructed
    /\ load_raises(disk)
    /\ call' = [op |-> "construct_raised", document |-> disk]
    /\ UNCHANGED <<playbook, disk, now, used_tip_ids, has_client, runs, overlays, ticks,
                   san, pc, local, ace_module>>

\* prompt_overlay on a store with an active tip that is no dict: tip.get raises
\* AttributeError in the scoring loop of _select_tips, before anything is changed
PromptOverlayOnJunk(current_task, domain) ==
    /\ playbook # NotConstructed
    /\ ~IsWellFormed(playbook)
    /\ call' = [op |-> "prompt_overlay_raised", error |-> "AttributeError",
                task |-> current_task, domain |-> domain, store |-> playbook]
    /\ overlays' = overlays + 1
    /\ UNCHANGED <<playbook, disk, now, used_tip_ids, has_client, runs, ticks, san, pc, local, ace_module>>

\* record_run on such a store: _update_active_tips indexes the dicts only, so the
\* other elements are gone after the merge
RecordRunOnJunk(inp) ==
    /\ playbook # NotConstructed
    /\ ~IsWellFormed(playbook)
    /\ \E pb \in record_run_stores([playbook EXCEPT !.active_tips = dict_tips(@)], inp,
                                   IF inp.pass_ids THEN used_tip_ids ELSE <<>>,
                                   has_client, now) :
          playbook' = pb
    /\ disk' = playbook'
    /\ call' = [op |-> "record_run_on_junk", task |-> inp.sc.task, before |-> playbook.active_tips]
    /\ ace_module' = after_append(ace_module, playbook'.entries)
    /\ runs' = runs + 1
    /\ UNCHANGED <<now, used_tip_ids, has_client, overlays, ticks, san, pc, local>>

DoPromptOverlayOnJunk ==
    overlays < MaxOverlays /\ \E inp \in OverlayInputs : PromptOverlayOnJunk(inp.task, inp.domain)

DoRecordRunOnJunk == runs < MaxRuns /\ \E inp \in LoadedRunInputs : RecordRunOnJunk(inp)

DoWellFormedRecordRun ==
    /\ playbook # NotConstructed
    /\ IsWellFormed(playbook)
    /\ runs < MaxRuns
    /\ \E inp \in LoadedRunInputs : RecordRun(inp)

DoWellFormedPromptOverlay ==
    /\ playbook # NotConstructed
    /\ IsWellFormed(playbook)
    /\ overlays < MaxOverlays
    /\ \E inp \in OverlayInputs : PromptOverlay(inp.task, inp.domain)

NextMalformed ==
    \/ Construct
    \/ ConstructRaises
    \/ DoWellFormedRecordRun
    \/ DoWellFormedPromptOverlay
    \/ DoRecordRunOnJunk
    \/ DoPromptOverlayOnJunk
    \/ DoTick

SpecMalformed == InitMalformed /\ [][NextMalformed]_vars

-----------------------------------------------------------------------------
(* prompt_overlay after _select_tips, on its own: the text and the ids it    *)
(* builds from the selected tips, the store's preferences and the notes of   *)
(* the guardrails document.                                                  *)

MaxOverlayPrefs == 7

\* a selected tip "tip a", "tip b", ...
SelectedTip(k) ==
    tip_obj(<<"t","i","p"," ">> \o <<LowerChars[k]>>, <<>>, <<>>, ActionConfidence, D1, 0)

SelectedLists ==
    { <<>>, <<SelectedTip(1)>>, <<SelectedTip(1), SelectedTip(2)>>,
      <<SelectedTip(2), SelectedTip(1)>> }

NoteLists == { <<>>, <<guardrail_notes[1]>>, guardrail_notes }

InitOverlay ==
    /\ playbook = DEFAULT_PLAYBOOK
    /\ disk = DEFAULT_PLAYBOOK
    /\ now = 0
    /\ call \in { [op |-> "overlay_args", tips |-> tips, preferences |-> ManyPrefs(1, n),
                   notes |-> notes]
                  : tips \in SelectedLists, n \in 0..MaxOverlayPrefs, notes \in NoteLists }
    /\ used_tip_ids = <<>>
    /\ has_client = FALSE
    /\ runs = 0
    /\ overlays = 0
    /\ ticks = 0
    /\ san = Idle
    /\ pc = [t \in Threads |-> "idle"]
    /\ local = [t \in Threads |-> NoLocals]
    /\ ace_module = [playbook |-> DEFAULT_PLAYBOOK, aliased |-> TRUE]

\* lines 153 to 167 of prompt_overlay
AssembleOverlay ==
    /\ call.op = "overlay_args"
    /\ LET lines == overlay_lines_with(call.tips, call.preferences, call.notes)
       IN  call' = [ op |-> "overlay_assembled", tips |-> call.tips,
                     preferences |-> call.preferences, notes |-> call.notes,
                     lines |-> lines, overlay |-> join(<<"\n">>, lines),
                     ids |-> [k \in 1..Len(call.tips) |-> tip_key(call.tips[k])] ]
    /\ UNCHANGED <<playbook, disk, now, used_tip_ids, has_client, runs, overlays, ticks,
                   san, pc, local, ace_module>>

NextOverlay == AssembleOverlay

SpecOverlay == InitOverlay /\ [][NextOverlay]_vars

-----------------------------------------------------------------------------
(* One pass of _apply_decay over two tips of the same confidence that have  *)
(* been idle for different times                                            *)

MaxDecayDays == 27

\* the instant of the pass
DecayInstant == (MaxDecayDays + 1) * TicksPerDay

\* a tip of confidence c last used `idle` ticks before the pass
IdleTip(k, c, idle) ==
    [SelectedTip(k) EXCEPT !.confidence = c, !.last_used = DecayInstant - idle,
                           !.created_at = 0]

InitDecay ==
    /\ \E c \in MinConfidence..MaxConfidence, d1 \in 0..MaxDecayDays, d2 \in 0..MaxDecayDays,
          r1 \in 0..(TicksPerDay - 1), r2 \in 0..(TicksPerDay - 1) :
          /\ d1 <= d2
          /\ playbook = [DEFAULT_PLAYBOOK EXCEPT !.active_tips =
                            << IdleTip(1, c, d1 * TicksPerDay + r1),
                               IdleTip(2, c, d2 * TicksPerDay + r2) >>]
    /\ disk = playbook
    /\ now = DecayInstant
    /\ call = [op |-> "decay_args"]
    /\ used_tip_ids = <<>>
    /\ has_client = FALSE
    /\ runs = 0
    /\ overlays = 0
    /\ ticks = 0
    /\ san = Idle
    /\ pc = [t \in Threads |-> "idle"]
    /\ local = [t \in Threads |-> NoLocals]
    /\ ace_module = [playbook |-> DEFAULT_PLAYBOOK, aliased |-> FALSE]

\* _apply_decay(tips) at the instant `now`
ApplyDecay ==
    /\ call.op = "decay_args"
    /\ \E decayed \in apply_decay(playbook.active_tips, now) :
          /\ playbook' = [playbook EXCEPT !.active_tips = decayed]
          /\ call' = [op |-> "decay", before |-> playbook.active_tips, after |-> decayed]
    /\ UNCHANGED <<disk, now, used_tip_ids, has_client, runs, overlays, ticks,
                   san, pc, local, ace_module>>

NextDecay == ApplyDecay

SpecDecay == InitDecay /\ [][NextDecay]_vars

-----------------------------------------------------------------------------
(* _update_active_tips on a store of one tip and one candidate of its id    *)

\* the confidences _curate_entry and _reflect_on_entry give a tip
CandidateConfidences ==
    {FallbackConfidence, ActionConfidence, OutcomeConfidence, ErrorConfidence}

InitBlend ==
    /\ \E e \in MinConfidence..MaxConfidence, c \in CandidateConfidences :
          /\ playbook = [DEFAULT_PLAYBOOK EXCEPT !.active_tips =
                            << [SelectedTip(1) EXCEPT !.confidence = e] >>]
          /\ call = [op |-> "merge_args",
                     new_tips |-> << [SelectedTip(1) EXCEPT !.confidence = c] >>]
    /\ disk = playbook
    /\ now = 0
    /\ used_tip_ids = <<>>
    /\ has_client = FALSE
    /\ runs = 0
    /\ overlays = 0
    /\ ticks = 0
    /\ san = Idle
    /\ pc = [t \in Threads |-> "idle"]
    /\ local = [t \in Threads |-> NoLocals]
    /\ ace_module = [playbook |-> DEFAULT_PLAYBOOK, aliased |-> FALSE]

\* self._update_active_tips(new_tips)
UpdateActiveTips ==
    /\ call.op = "merge_args"
    /\ \E merged \in update_active_tips(playbook.active_tips, call.new_tips, now) :
          /\ playbook' = [playbook EXCEPT !.active_tips = merged]
          /\ call' = [ op |-> "merge", before |-> playbook.active_tips,
                       new_tips |-> call.new_tips,
                       updated_conf |-> blend(playbook.active_tips[1].confidence,
                                              call.new_tips[1].confidence),
                       merged |-> merged ]
    /\ UNCHANGED <<disk, now, used_tip_ids, has_client, runs, overlays, ticks,
                   san, pc, local, ace_module>>

NextBlend == UpdateActiveTips

SpecBlend == InitBlend /\ [][NextBlend]_vars

-----------------------------------------------------------------------------
(* Properties of the store                                                  *)

IsRecordRun == call.op = "record_run"

IsPromptOverlay == call.op = "prompt_overlay"

Ids(tips) == {tips[i].id : i \in 1..Len(tips)}

\* the tips of `tips` whose id is `id`
WithId(tips, id) == {tips[i] : i \in {j \in 1..Len(tips) : tips[j].id = id}}

\* C1: immediately after the merge of a record_run the active tips are at most 20
\* and each of them has a confidence of at least 0.2.
C1_CapacityBound ==
    IsRecordRun =>
        /\ Len(call.merged) <= 20
        /\ \A i \in 1..Len(call.merged) : call.merged[i].confidence >= 20

\* a merge that had more than 20 tips to keep and kept 20
C1_Witness ==
    /\ IsRecordRun
    /\ Cardinality(Ids(call.before) \cup Ids(call.curated) \cup Ids(call.reflected)) > 20
    /\ Len(call.merged) = 20

\* C2: a tip's id is determined by its domain and text, and after a merge (and in
\* the store at any time) no two active tips have the same id or the same domain
\* and text: candidates equal to an existing tip or to each other are one record.
C2_IdentityCollapse ==
    LET Unique(tips) ==
            \A i, j \in 1..Len(tips) :
                /\ tips[i].id = tip_id(tips[i].tip, tips[i].domain)
                /\ (tips[i].id = tips[j].id
                      \/ (tips[i].domain = tips[j].domain /\ tips[i].tip = tips[j].tip))
                   => i = j
    IN  /\ Unique(playbook.active_tips)
        /\ IsRecordRun => Unique(call.merged)

\* a merge whose candidates had the same domain and text twice in the batch, and
\* the same as a tip already in the store
C2_Witness ==
    /\ IsRecordRun
    /\ \E i, j \in 1..Len(call.curated) :
          /\ i # j
          /\ call.curated[i].domain = call.curated[j].domain
          /\ call.curated[i].tip = call.curated[j].tip
          /\ call.curated[i].id \in Ids(call.before)
          /\ Cardinality(WithId(call.merged, call.curated[i].id)) = 1

\* C3: in every state reached from the empty store every active tip's confidence
\* is between 0.1 and 1.0, also after success or failed / blocked feedback.
C3_ConfidenceBounds ==
    \A i \in 1..Len(playbook.active_tips) :
        /\ playbook.active_tips[i].confidence >= 10
        /\ playbook.active_tips[i].confidence <= 100

\* success feedback on a tip that the merge left above 0.95
C3_Witness ==
    /\ IsRecordRun
    /\ call.goal_status = "success"
    /\ \E i \in 1..Len(call.merged) :
          /\ call.merged[i].id \in Range(call.used_tip_ids)
          /\ call.merged[i].confidence > 95
          /\ playbook.active_tips[i].confidence = 100
          /\ playbook.active_tips[i].helpful_count = 1

\* C4: every tip prompt_overlay returns or lists is a tip of the store whose
\* domain is the requesting domain or "global", on the fallback path as well.
C4_DomainIsolation ==
    IsPromptOverlay =>
        /\ \A k \in 1..Len(call.top) :
              /\ call.top[k].domain \in {call.domain, GlobalDomain}
              /\ call.ids[k] = call.top[k].id
        /\ \A n \in 1..Len(call.lines) :
              (call.lines[n] = TipsHeader => n = 1)
        /\ call.top # <<>> =>
              /\ call.lines[1] = TipsHeader
              /\ \A k \in 1..Len(call.top) :
                    \E b \in Range(call.before) :
                        /\ b.domain \in {call.domain, GlobalDomain}
                        /\ call.lines[k + 1] = <<"-", " ">> \o b.tip
                        /\ call.ids[k] = b.id

\* an overlay served by the fallback (no eligible tip scores 0.2) from a store
\* that also holds a tip of another domain
C4_Witness ==
    /\ IsPromptOverlay
    /\ call.top # <<>>
    /\ \A k \in 1..Len(call.top) :
          ~frac_ge(score_of(call.top[k], task_signature(call.task)), <<1, 5>>)
    /\ \E b \in Range(call.before) : b.domain \notin {call.domain, GlobalDomain}

IsHarmful == IsRecordRun /\ call.goal_status \in {"failed", "blocked"}

\* C5 as stated: a failed or blocked record_run that names a tip active before
\* the call leaves it 0.05 below its confidence before the call (not below 0.1)
\* and with one more harmful_count.
C5_FeedbackFromBefore ==
    IsHarmful =>
        \A b \in Range(call.before) :
            b.id \in Range(call.used_tip_ids) =>
                \E a \in Range(playbook.active_tips) :
                    /\ a.id = b.id
                    /\ a.confidence = Max(10, b.confidence - 5)
                    /\ a.harmful_count = b.harmful_count + 1

\* C5 amended: a failed or blocked record_run that names a tip active before the
\* call either evicts it in its own merge pass, or leaves it 0.05 below the
\* confidence that pass gave it (not below 0.1) with one more harmful_count
\* than before the call.
C5_FeedbackAfterMerge ==
    IsHarmful =>
        \A b \in Range(call.before) :
            b.id \in Range(call.used_tip_ids) =>
                IF b.id \in Ids(call.merged)
                THEN \E m \in WithId(call.merged, b.id) :
                        \E a \in WithId(playbook.active_tips, b.id) :
                            /\ a.confidence = Max(10, m.confidence - 5)
                            /\ a.harmful_count = b.harmful_count + 1
                ELSE b.id \notin Ids(playbook.active_tips)

\* a blocked run that names a tip its own merge re-observed and raised
C5_Witness ==
    /\ IsRecordRun
    /\ call.goal_status = "blocked"
    /\ \E b \in Range(call.before) :
          /\ b.id \in Range(call.used_tip_ids)
          /\ \E m \in WithId(call.merged, b.id) : m.confidence > b.confidence
          /\ \E a \in WithId(playbook.active_tips, b.id) : a.harmful_count = 1

\* C6: feedback changes only the tips named in used_tip_ids: success adds one
\* helpful_count and 0.05 of confidence up to 1.0, failed or blocked adds one
\* harmful_count and takes 0.05 of confidence down to 0.1, any other status
\* changes nothing; every other tip is as the merge left it.
C6_FeedbackApplier ==
    IsRecordRun =>
        /\ Len(playbook.active_tips) = Len(call.merged)
        /\ \A i \in 1..Len(call.merged) :
              LET m == call.merged[i]
                  a == playbook.active_tips[i]
                  same_but(h, g, c) ==
                      /\ a.helpful_count = h
                      /\ a.harmful_count = g
                      /\ a.confidence = c
                      /\ \A f \in DOMAIN m \ {"helpful_count", "harmful_count", "confidence"} :
                            a[f] = m[f]
              IN  IF m.id \notin Range(call.used_tip_ids) THEN a = m
                  ELSE CASE call.goal_status = "success" ->
                                same_but(m.helpful_count + 1, m.harmful_count,
                                         IF m.confidence + 5 > 100 THEN 100
                                         ELSE m.confidence + 5)
                         [] call.goal_status \in {"failed", "blocked"} ->
                                same_but(m.helpful_count, m.harmful_count + 1,
                                         IF m.confidence - 5 < 10 THEN 10
                                         ELSE m.confidence - 5)
                         [] OTHER -> a = m

\* a successful run with a tip that was used and a tip that was not
C6_Witness ==
    /\ IsRecordRun
    /\ call.goal_status = "success"
    /\ \E i, j \in 1..Len(call.merged) :
          /\ call.merged[i].id \in Range(call.used_tip_ids)
          /\ call.merged[j].id \notin Range(call.used_tip_ids)
          /\ playbook.active_tips[i].helpful_count = call.merged[i].helpful_count + 1
          /\ playbook.active_tips[j] = call.merged[j]

\* the text of the outcome tip of the last record_run
OutcomeTipText ==
    OutcomeTipHead \o strip(sanitized(call.task)) \o OutcomeTipMid
        \o Take(strip(sanitized(call.outcome)), 280)

\* the next call is a prompt_overlay for the domain of this record_run, with a
\* task whose signature shares a token with the recorded task's signature
OverlayFollows ==
    /\ call'.op = "prompt_overlay"
    /\ call'.domain = call.domain
    /\ Range(signature_of(call'.task)) \cap Range(signature_of(call.task)) # {}

\* the overlay lists the outcome tip in its tip section and returns its id
OutcomeTipListed ==
    /\ call'.lines # <<>>
    /\ call'.lines[1] = TipsHeader
    /\ \E k \in 1..Len(call'.top) :
          /\ call'.top[k].tip = OutcomeTipText
          /\ call'.lines[k + 1] = <<"-", " ">> \o OutcomeTipText
          /\ call'.ids[k] = tip_id(OutcomeTipText, call.domain)

\* the candidates are an outcome tip and one tip per error, all of the run's domain
OutcomeAndErrorTips ==
    /\ Len(call.curated) >= 2
    /\ call.curated[1].tip = OutcomeTipText
    /\ \A k \in 1..Len(call.errors) :
          \E n \in 1..Len(call.curated) :
              /\ Len(call.curated[n].tip) >= Len(ErrorTipHead)
              /\ SubSeq(call.curated[n].tip, 1, Len(ErrorTipHead)) = ErrorTipHead
              /\ Contains(call.curated[n].tip, Take(sanitized(call.errors[k]), 180))
    /\ Len(call.curated) >= 1 + Len(call.errors)
    /\ \A n \in 1..Len(call.curated) : call.curated[n].domain = call.domain
    /\ \A n \in 1..Len(call.reflected) : call.reflected[n].domain = call.domain

\* C7 as stated: a record_run with a non-empty outcome and at least one error
\* makes an outcome tip and a tip per error in its domain, and a following
\* prompt_overlay for that domain with an overlapping task lists the outcome tip
\* and returns its id.
C7_RecordThenRetrieve ==
    [][ (IsRecordRun /\ call.outcome # <<>> /\ call.errors # <<>>) =>
            /\ OutcomeAndErrorTips
            /\ OverlayFollows => OutcomeTipListed ]_vars

\* C7 amended: a record_run whose outcome is non-empty after sanitizing and
\* stripping and which has at least one (and at most 25) errors makes an outcome
\* tip and a tip per error in its domain; if that outcome tip was not active
\* before the call and the store holds at most eight tips after it, a
\* prompt_overlay for that domain that is the next call, with an overlapping
\* task, lists the outcome tip and returns its id.
C7_RecordThenRetrieveSmallStore ==
    [][ (/\ IsRecordRun
         /\ strip(sanitized(call.outcome)) # <<>>
         /\ call.errors # <<>>
         /\ Len(call.errors) <= 25) =>
            /\ OutcomeAndErrorTips
            /\ (/\ tip_id(OutcomeTipText, call.domain) \notin Ids(call.before)
                /\ Len(playbook.active_tips) <= 8
                /\ OverlayFollows) => OutcomeTipListed ]_vars

\* the overlay that follows the run of the end-to-end scenario lists its outcome tip
C7_Witness ==
    /\ IsPromptOverlay
    /\ call.domain = D1
    /\ call.task = TaskShort
    /\ runs = 1
    /\ playbook.entries[1].outcome = OutcomePrice
    /\ playbook.entries[1].errors = <<ErrTimeout>>
    /\ call.lines[1] = TipsHeader
    /\ \E k \in 1..Len(call.top) :
          /\ call.top[k].tip = OutcomeTipHead \o TaskPricing \o OutcomeTipMid \o OutcomePrice
          /\ call.lines[k + 1] = <<"-", " ">> \o call.top[k].tip
          /\ call.ids[k] = call.top[k].id

\* text that has passed through _sanitize_text holds none of its terms any more
IsSanitizedText(text) == sanitize_text(text) = text

\* C8: every text record_run puts into the store has passed through
\* _sanitize_text: the entry's task, outcome, errors, preferences,
\* reason_for_status, signature tokens and domain, and the text of the curated
\* and the reflected tips.
C8_SanitizationBoundary ==
    IsRecordRun =>
        LET entry == playbook.entries[Len(playbook.entries)]
        IN  /\ entry.task = sanitize_text(call.task)
            /\ entry.outcome = sanitize_text(call.outcome)
            /\ \A k \in 1..Len(entry.errors) : IsSanitizedText(entry.errors[k])
            /\ \A k \in 1..Len(entry.preferences) : IsSanitizedText(entry.preferences[k])
            /\ entry.reason_for_status = sanitize_text(call.reason_for_status)
            /\ entry.signature = task_signature(sanitize_text(call.task))
            /\ entry.domain = sanitize_text(call.domain)
            /\ \A k \in 1..Len(call.curated) : IsSanitizedText(call.curated[k].tip)
            /\ \A k \in 1..Len(call.reflected) : IsSanitizedText(call.reflected[k].tip)

\* C9: the text _sanitize_text returns holds no never_store term in any letter case.
C9_CaseInsensitiveDenylist ==
    san.phase = "returned" =>
        \A k \in 1..Len(never_store_terms) :
            ~Contains(lower(san.out), never_store_terms[k])

\* thread t is inside record_run between its first change of the store and its save
InStoreSection(t) == pc[t] \in {"appended", "merged", "preferences", "feedback"}

\* C10: no two threads are at the same time inside a read-modify-write section of
\* the shared store.
C10_MutualExclusion ==
    \A t, u \in Threads : (InStoreSection(t) /\ InStoreSection(u)) => t = u

AllDone == \A t \in Threads : pc[t] = "done"

\* C11: when the threads' calls have all returned, the entries, the set of active
\* tips (with their confidences and counters) and the preferences are those of
\* running the same calls one after the other in some order.
C11_NoLostUpdates ==
    AllDone =>
        \E pb \in serial_stores([ playbook |-> DEFAULT_PLAYBOOK,
                                  used_tip_ids |-> [t \in Threads |-> <<>>] ],
                                [t \in Threads |-> 0]) :
            /\ pb.entries = playbook.entries
            /\ Range(pb.active_tips) = Range(playbook.active_tips)
            /\ pb.preferences = playbook.preferences

IsConstruct == call.op = "construct"

\* C12: when record_run, a prompt_overlay that changed the active tips, or a
\* construction whose migration changed the active tips has returned, the
\* playbook document holds the in-memory store.
C12_WriteThrough ==
    /\ IsRecordRun => disk = playbook
    /\ (IsPromptOverlay /\ playbook.active_tips # call.before) => disk = playbook
    /\ (IsConstruct /\ playbook.active_tips # call.loaded.active_tips) => disk = playbook

\* a construction that turned a string tip of the document into a structured tip
C12_Witness ==
    /\ IsConstruct
    /\ \E i \in 1..Len(call.loaded.active_tips) :
          /\ "str" \in DOMAIN call.loaded.active_tips[i]
          /\ \E j \in 1..Len(playbook.active_tips) :
                /\ playbook.active_tips[j].tip = call.loaded.active_tips[i].str
                /\ playbook.active_tips[j].confidence = 60
    /\ disk = playbook
    /\ disk # call.document

HasRaised == call.op \in {"record_run_raised", "prompt_overlay_raised"}

\* C13: after a record_run or prompt_overlay call that failed because the
\* playbook write raised, the in-memory store is the store before the call.
C13_FailureAtomicity == HasRaised => playbook = call.store

\* C14: a record_run with a client whose reflection call raised, or answered
\* without choices, content or any tip line, got no tip from the reflector,
\* returned the curator's tips, appended its entry, merged the curator's tips,
\* applied preferences and feedback, and wrote the store.
C14_ReflectorIsolation ==
    (IsRecordRun /\ has_client /\ call.reply \in FailedReplies) =>
        /\ call.reflected = <<>>
        /\ call.returned.tips = call.curated
        /\ playbook.entries # <<>>
        /\ playbook.entries[Len(playbook.entries)].task = sanitized(call.task)
        /\ \A k \in 1..Len(call.curated) :
              \/ call.curated[k].id \in Ids(call.merged)
              \/ Len(call.merged) = MaxTips
        /\ Ids(call.merged) \subseteq Ids(call.before) \cup Ids(call.curated)
        /\ playbook.active_tips =
               update_tip_feedback(call.merged, call.used_tip_ids, call.goal_status)
        /\ \A k \in 1..Len(call.returned.preferences) :
              \/ call.returned.preferences[k] = <<>>
              \/ call.returned.preferences[k] \in Range(playbook.preferences)
              \/ Len(playbook.preferences) = MaxPreferences
        /\ disk = playbook

\* a record_run with a client whose reflection call raised, that curated tips
C14_Witness ==
    /\ IsRecordRun
    /\ has_client
    /\ call.reply = ReplyRaises
    /\ call.curated # <<>>
    /\ call.returned.tips = call.curated
    /\ Ids(call.curated) \subseteq Ids(playbook.active_tips)

\* the preferences the last prompt_overlay listed
ListedPreferences ==
    {p \in Range(Take(playbook.preferences, OverlayPreferences)) :
        Bullet(p) \in Range(call.lines)}

\* C15: every preference a prompt_overlay lists was recorded by a record_run
\* under the overlay's domain or under the "global" domain.
C15_PreferencesByDomain ==
    IsPromptOverlay =>
        \A p \in ListedPreferences :
            \E i \in 1..Len(playbook.entries) :
                /\ playbook.entries[i].domain \in {call.domain, GlobalDomain}
                /\ p \in Range(playbook.entries[i].preferences)

\* the active tip, before the last prompt_overlay, that its k-th returned tip was
ReturnedBefore(k) == CHOOSE b \in Range(call.before) : b.id = call.top[k].id

\* C16: the tips prompt_overlay returns are eligible, distinct, in non-increasing
\* order of 0.6*similarity + 0.4*confidence, and at most 8; when some eligible tip
\* scores 0.2 or more they all do and they are the 8 highest of those (or all of
\* them); otherwise they are the 5 highest-scoring eligible tips (or all of them).
C16_SelectionRule ==
    IsPromptOverlay =>
        LET signature == signature_of(call.task)
            eligible == {b \in Range(call.before) : b.domain \in {call.domain, GlobalDomain}}
            above == {b \in eligible : frac_ge(score_of(b, signature), MinScore)}
            n == Len(call.top)
            pool == IF above # {} THEN above ELSE eligible
        IN  /\ n <= MaxSelected
            /\ \A k \in 1..n : \E b \in eligible : b.id = call.top[k].id
            /\ \A j, k \in 1..n : j < k =>
                  /\ call.top[j].id # call.top[k].id
                  /\ frac_ge(score_of(ReturnedBefore(j), signature),
                             score_of(ReturnedBefore(k), signature))
            /\ \A k \in 1..n : ReturnedBefore(k) \in pool
            /\ n = Min(IF above # {} THEN MaxSelected ELSE FallbackSelected, Cardinality(pool))
            /\ \A b \in pool : \A k \in 1..n :
                  \/ \E j \in 1..n : ReturnedBefore(j) = b
                  \/ frac_ge(score_of(ReturnedBefore(k), signature), score_of(b, signature))

\* a prompt_overlay that returned 8 tips out of more than 8 that score 0.2 or more
C16_Witness ==
    /\ IsPromptOverlay
    /\ Len(call.top) = MaxSelected
    /\ Cardinality({b \in Range(call.before) :
                       /\ b.domain \in {call.domain, GlobalDomain}
                       /\ frac_ge(score_of(b, signature_of(call.task)), MinScore)}) > MaxSelected

\* C17: a prompt_overlay that returns tips sets the last_used of each of them to
\* the instant of the call, leaves every active tip with its confidence decayed
\* by its age at that instant (a returned tip has age 0) or evicts it when that
\* is below 0.2, keeps the tips sorted by confidence and at most 20, and writes
\* the store to the document.
C17_RetrievalWrites ==
    [][ (overlays' = overlays + 1 /\ call'.top # <<>>) =>
          /\ \A k \in 1..Len(call'.top) : call'.top[k].last_used = now
          /\ \A b \in Range(playbook.active_tips) :
                LET returned == b.id \in Ids(call'.top)
                    days_old == IF returned THEN 0 ELSE days_between(b.last_used, now)
                    v == Max(MinConfidence * 100,
                             b.confidence * Max(DecayFloor, 100 - DecayPerDay * days_old))
                IN  \E c \in round_choices(v) :
                       IF c >= PruneBelow
                       THEN [b EXCEPT !.confidence = c,
                                      !.last_used = IF returned THEN now ELSE @]
                                \in Range(playbook'.active_tips)
                       ELSE b.id \notin Ids(playbook'.active_tips)
          /\ Ids(playbook'.active_tips) \subseteq Ids(playbook.active_tips)
          /\ Len(playbook'.active_tips) <= MaxTips
          /\ \A i, j \in 1..Len(playbook'.active_tips) :
                i < j => playbook'.active_tips[i].confidence >= playbook'.active_tips[j].confidence
          /\ playbook'.entries = playbook.entries
          /\ playbook'.preferences = playbook.preferences
          /\ disk' = playbook' ]_vars

\* a prompt_overlay that returned a tip last used earlier, while another tip
\* lost confidence or its place, and whose store is the document
C17_Witness ==
    /\ IsPromptOverlay
    /\ \E k \in 1..Len(call.top) : ReturnedBefore(k).last_used < call.top[k].last_used
    /\ \E b \in Range(call.before) :
          \/ b.id \notin Ids(playbook.active_tips)
          \/ \E c \in WithId(playbook.active_tips, b.id) : c.confidence < b.confidence
    /\ disk = playbook

\* C18: after every step the preference list has at most 12 entries, no entry
\* twice and no empty string; the list before the step is a prefix of the list
\* after it, and a list of 12 entries is left as it is.
C18_PreferencesInvariant ==
    [][ LET old == playbook.preferences
            new == playbook'.preferences
        IN  /\ Len(new) <= MaxPreferences
            /\ \A i, j \in 1..Len(new) : i < j => new[i] # new[j]
            /\ \A i \in 1..Len(new) : new[i] # <<>>
            /\ Len(old) <= Len(new)
            /\ SubSeq(new, 1, Len(old)) = old
            /\ Len(old) = MaxPreferences => new = old ]_vars

\* a record_run on a store of 12 preferences that came with a preference the
\* store does not keep
C18_Witness ==
    /\ IsRecordRun
    /\ Len(playbook.preferences) = MaxPreferences
    /\ \E p \in Range(call.returned.preferences) : p \notin Range(playbook.preferences)
    /\ Take(playbook.preferences, 10) = ManyPrefs(1, 10)

\* C19: a record_run step makes entries one longer, with the entry of that run
\* last, any other step leaves entries alone, and in every step entries before
\* is a prefix of entries after.
C19_AppendOnlyHistory ==
    [][ LET old == playbook.entries
            new == playbook'.entries
        IN  /\ Len(new) >= Len(old)
            /\ SubSeq(new, 1, Len(old)) = old
            /\ runs' = runs + 1 =>
                  /\ Len(new) = Len(old) + 1
                  /\ new[Len(new)].task = sanitized(call'.task)
                  /\ new[Len(new)].goal_status = call'.goal_status
            /\ runs' = runs => new = old ]_vars

\* a prompt_overlay that changed the active tips of a store with two entries
C19_Witness ==
    /\ IsPromptOverlay
    /\ Len(playbook.entries) = 2
    /\ playbook.active_tips # call.before
    /\ playbook.entries[1].timestamp <= playbook.entries[2].timestamp

\* C20: a record_run whose used_tip_ids is empty, or names no tip that is
\* active after the merge, leaves the merged tips as they are: confidence,
\* helpful_count and harmful_count of every active tip are those of the merge.
C20_UnknownIdentityNoOp ==
    (IsRecordRun /\ Range(call.used_tip_ids) \cap Ids(call.merged) = {}) =>
        /\ Len(playbook.active_tips) = Len(call.merged)
        /\ \A i \in 1..Len(call.merged) :
              /\ playbook.active_tips[i].id = call.merged[i].id
              /\ playbook.active_tips[i].confidence = call.merged[i].confidence
              /\ playbook.active_tips[i].helpful_count = call.merged[i].helpful_count
              /\ playbook.active_tips[i].harmful_count = call.merged[i].harmful_count
        /\ disk = playbook

\* a blocked, failed or successful record_run that named a tip no longer active
C20_Witness ==
    /\ IsRecordRun
    /\ call.used_tip_ids # <<>>
    /\ call.goal_status \in {"success", "failed", "blocked"}
    /\ call.merged # <<>>
    /\ Range(call.used_tip_ids) \cap Ids(call.merged) = {}
    /\ playbook.active_tips = call.merged

\* C21: constructing ACEManager on an existing document never raises, the store
\* it yields holds only dict tips, and no later prompt_overlay raises.
C21_LoadNeverFails ==
    /\ call.op # "construct_raised"
    /\ IsConstruct => IsWellFormed(playbook)
    /\ ~(call.op = "prompt_overlay_raised" /\ "error" \in DOMAIN call)

\* C22: every construction on a path without a document yields the empty store
\* and writes the empty document.
C22_MissingDocument ==
    (IsConstruct /\ call.document = NoDocument) =>
        /\ playbook = DEFAULT_PLAYBOOK
        /\ disk = DEFAULT_PLAYBOOK

\* the lines of one section: its header, then "- " and each item
SectionLines(header, items) ==
    IF items = <<>> THEN <<>>
    ELSE [k \in 1..(Len(items) + 1) |-> IF k = 1 THEN header ELSE <<"-", " ">> \o items[k - 1]]

\* C23: the overlay is the tips section, then the section of the first 5
\* preferences, then the section of all guardrail notes, each only when it has an
\* item, joined by newlines; it is empty exactly when there is no tip, no
\* preference and no note; the ids are those of the listed tips, in their order.
C23_OverlayAssembly ==
    call.op = "overlay_assembled" =>
        LET tip_texts == [k \in 1..Len(call.tips) |-> call.tips[k].tip]
            first_prefs == SubSeq(call.preferences, 1, Min(5, Len(call.preferences)))
            expected == SectionLines(TipsHeader, tip_texts)
                            \o SectionLines(PreferencesHeader, first_prefs)
                            \o SectionLines(GuardrailsHeader, call.notes)
        IN  /\ call.lines = expected
            /\ call.overlay = join(<<"\n">>, expected)
            /\ (call.overlay = <<>>) <=>
                   (call.tips = <<>> /\ call.preferences = <<>> /\ call.notes = <<>>)
            /\ Len(call.ids) = Len(call.tips)
            /\ \A k \in 1..Len(call.tips) : call.ids[k] = call.tips[k].id

\* an overlay of two tips, more than 5 preferences and the guardrail notes
C23_Witness ==
    /\ call.op = "overlay_assembled"
    /\ Len(call.tips) = 2
    /\ Len(call.preferences) > 5
    /\ call.notes # <<>>
    /\ Len(call.lines) = 3 + 6 + 1 + Len(call.notes)
    /\ call.ids = <<call.tips[1].id, call.tips[2].id>>

\* C24: every active tip has a text of at most 280 characters.
C24_TipTextLength ==
    \A i \in 1..Len(playbook.active_tips) : Len(playbook.active_tips[i].tip) <= 280

\* whole days between a tip's last_used and the instant of the call
DaysOld(tip) == (now - tip.last_used) \div TicksPerDay

StructuredFields ==
    { "id", "domain", "helpful_count", "harmful_count", "confidence", "task_signature",
      "created_at", "last_used" }

\* C26: after construction a tip the document held as a bare string is a
\* structured tip of confidence 0.6, empty signature, domain "default", zero
\* counters and the id of ("default", text); every tip has all the fields of a
\* structured tip and keeps the fields it had; if the tips changed, the
\* document is the migrated store.
C26_MigrationOnLoad ==
    IsConstruct =>
        LET stored == call.loaded.active_tips
            tips == playbook.active_tips
        IN  /\ Len(tips) = Len(stored)
            /\ \A i \in 1..Len(stored) :
                  /\ StructuredFields \subseteq DOMAIN tips[i]
                  /\ IsStrTip(stored[i]) =>
                        /\ tips[i].tip = stored[i].str
                        /\ tips[i].confidence = 60
                        /\ tips[i].task_signature = <<>>
                        /\ tips[i].domain = <<"d","e","f","a","u","l","t">>
                        /\ tips[i].helpful_count = 0
                        /\ tips[i].harmful_count = 0
                        /\ tips[i].id = tip_id(stored[i].str, <<"d","e","f","a","u","l","t">>)
                  /\ ~IsStrTip(stored[i]) =>
                        \A f \in DOMAIN stored[i] : tips[i][f] = stored[i][f]
            /\ tips # stored => disk = playbook

\* a construction from a document holding a structured tip without id and
\* counters and a bare string
C26_Witness ==
    /\ IsConstruct
    /\ Len(call.loaded.active_tips) = 2
    /\ "id" \notin DOMAIN call.loaded.active_tips[1]
    /\ IsStrTip(call.loaded.active_tips[2])
    /\ playbook.active_tips[1].id = tip_id(call.loaded.active_tips[1].tip, D1)
    /\ playbook.active_tips[2].domain = DefaultDomain
    /\ disk = playbook

LowerAlnum == Range(LowerChars) \cup Digits

\* C27: a signature has at most 12 tokens, each a non-empty run of lowercase
\* letters and digits that is not a stop word, no token twice; a task without
\* a letter or digit has the empty signature.
C27_TaskSignature ==
    call.op = "signature" =>
        /\ Len(call.out) <= 12
        /\ \A i \in 1..Len(call.out) :
              /\ call.out[i] # <<>>
              /\ Range(call.out[i]) \subseteq LowerAlnum
              /\ call.out[i] \notin stop
        /\ \A i, j \in 1..Len(call.out) : i # j => call.out[i] # call.out[j]
        /\ Range(call.task) \subseteq {" "} => call.out = <<>>

\* the entry record_run appended
LastEntry == playbook.entries[Len(playbook.entries)]

Flag(b) == IF b THEN 1 ELSE 0

ConfidencesOf(tips) == [k \in 1..Len(tips) |-> tips[k].confidence]

\* the confidences of n error tips
ErrorConfidences(n) == [k \in 1..n |-> 70]

\* the curated tips carry the entry's signature, its stripped task, its domain
\* and the id of their domain and text
CuratedCarryEntry ==
    \A k \in 1..Len(call.curated) :
        /\ call.curated[k].task_signature = LastEntry.signature
        /\ call.curated[k].task = strip(LastEntry.task)
        /\ call.curated[k].domain = LastEntry.domain
        /\ call.curated[k].id = tip_id(call.curated[k].tip, LastEntry.domain)

\* C28 as stated: _curate_entry returns [outcome non-empty] + number of errors +
\* [actions non-empty] tips, of confidence 0.65, 0.70 and 0.60 in that order,
\* or one fallback tip of 0.50 when the sum is zero; never no tip; each tip
\* carries the entry's signature, task, domain and id.
C28_CuratorCountNonEmpty ==
    IsRecordRun =>
        LET n == Flag(LastEntry.outcome # <<>>) + Len(LastEntry.errors)
                 + Flag(LastEntry.actions # <<>>)
        IN  /\ call.curated # <<>>
            /\ n > 0 => Len(call.curated) = n
            /\ n = 0 => ConfidencesOf(call.curated) = <<50>>
            /\ CuratedCarryEntry

\* C28 amended: the outcome counts when it is non-empty after stripping.
C28_CuratorCount ==
    IsRecordRun =>
        LET has_outcome == strip(LastEntry.outcome) # <<>>
            has_actions == LastEntry.actions # <<>>
            n == Flag(has_outcome) + Len(LastEntry.errors) + Flag(has_actions)
        IN  /\ call.curated # <<>>
            /\ n > 0 =>
                  ConfidencesOf(call.curated) =
                      (IF has_outcome THEN <<65>> ELSE <<>>)
                      \o ErrorConfidences(Len(LastEntry.errors))
                      \o (IF has_actions THEN <<60>> ELSE <<>>)
            /\ n = 0 => ConfidencesOf(call.curated) = <<50>>
            /\ CuratedCarryEntry

\* a run with a blank outcome and one action: the action tip alone
C28_Witness ==
    /\ IsRecordRun
    /\ LastEntry.outcome = <<" ">>
    /\ LastEntry.actions # <<>>
    /\ ConfidencesOf(call.curated) = <<60>>

\* the candidates record_run handed to the merge
Candidates == call.curated \o call.reflected

\* how many candidates have the id of candidate k
TimesInBatch(k) ==
    Cardinality({j \in 1..Len(Candidates) : Candidates[j].id = Candidates[k].id})

\* what the merge made of candidate k: every record of its id in the merged
\* list is the existing tip with the blended confidence (to two decimals), the
\* candidate's signature (if it has one), task and domain and last_used at the
\* instant of the call, or the candidate itself if no tip had its id
MergedAsBlend(k) ==
    LET c == Candidates[k]
        found == WithId(call.merged, c.id)
        old == WithId(call.before, c.id)
    IN  /\ Cardinality(found) <= 1
        /\ Cardinality({i \in 1..Len(call.merged) : call.merged[i].id = c.id}) <= 1
        /\ \A m \in found :
              IF old = {} THEN m = c
              ELSE \A e \in old :
                     /\ m.confidence \in round_choices(IF e.confidence * 70 + c.confidence * 50 < 10000
                                                       THEN e.confidence * 70 + c.confidence * 50
                                                       ELSE 10000)
                     /\ m.task_signature =
                            (IF c.task_signature # <<>> THEN c.task_signature
                             ELSE e.task_signature)
                     /\ m.task = c.task
                     /\ m.domain = c.domain
                     /\ m.last_used = LastEntry.timestamp
                     /\ \A f \in DOMAIN e \ {"confidence", "task_signature", "task",
                                               "domain", "last_used"} : m[f] = e[f]

\* C29 as stated: every candidate with the id of an existing tip leaves that
\* tip with the confidence min(1.0, existing*0.7 + candidate*0.5) of the
\* confidence before the call, refreshed signature, task, domain and last_used,
\* as one record; a candidate with a new id is inserted as it is.
C29_MergeBlend ==
    IsRecordRun => \A k \in 1..Len(Candidates) : MergedAsBlend(k)

\* C29 amended: this holds of the candidates whose id occurs once in the batch
\* and whose tip the eviction of the same pass keeps.
C29_MergeBlendOnce ==
    IsRecordRun => \A k \in 1..Len(Candidates) : TimesInBatch(k) = 1 => MergedAsBlend(k)

\* an error tip of 0.70 observed again, alone in its batch: 0.84
C29_Witness ==
    /\ IsRecordRun
    /\ \E k \in 1..Len(Candidates) :
          /\ TimesInBatch(k) = 1
          /\ Candidates[k].confidence = 70
          /\ \E e \in WithId(call.before, Candidates[k].id) : e.confidence = 70
          /\ \E m \in WithId(call.merged, Candidates[k].id) : m.confidence = 84

\* the step is a record_run whose feedback reaches the tip of this id
FeedbackReaches(id) ==
    /\ runs' = runs + 1
    /\ call'.op = "record_run"
    /\ id \in Range(call'.used_tip_ids)

\* the counters of tip a are those of tip b plus h and g
CountersPlus(a, b, h, g) ==
    /\ a.helpful_count = b.helpful_count + h
    /\ a.harmful_count = b.harmful_count + g

\* C30 as stated: in every step a tip that stays in the active set keeps its
\* counters unless the feedback of a record_run reaches it, and every feedback
\* that reaches it raises exactly one of its counters by exactly 1.
C30_CountersByFeedback ==
    [][ \A b \in Range(playbook.active_tips) :
          \A a \in WithId(playbook'.active_tips, b.id) :
              IF FeedbackReaches(b.id)
              THEN CountersPlus(a, b, 1, 0) \/ CountersPlus(a, b, 0, 1)
              ELSE CountersPlus(a, b, 0, 0) ]_vars

\* C30 amended: feedback of status success raises helpful_count by 1, of
\* status failed or blocked harmful_count by 1, of any other status neither;
\* every other step, and merge, decay, eviction and retrieval within the
\* step, leave the counters of a tip that stays as they are.
C30_CountersByOutcome ==
    [][ \A b \in Range(playbook.active_tips) :
          \A a \in WithId(playbook'.active_tips, b.id) :
              IF FeedbackReaches(b.id) /\ call'.goal_status = "success"
              THEN CountersPlus(a, b, 1, 0)
              ELSE IF FeedbackReaches(b.id) /\ call'.goal_status \in {"failed", "blocked"}
                   THEN CountersPlus(a, b, 0, 1)
                   ELSE CountersPlus(a, b, 0, 0) ]_vars

\* a tip that had a counter above zero, was observed again and used in a run
\* that succeeded: one more helpful_count, harmful_count as before
C30_Witness ==
    /\ IsRecordRun
    /\ call.goal_status = "success"
    /\ \E b \in Range(call.before) :
          /\ b.helpful_count + b.harmful_count > 0
          /\ b.id \in Range(call.used_tip_ids)
          /\ b.id \in Ids(Candidates)
          /\ \E a \in WithId(playbook.active_tips, b.id) : CountersPlus(a, b, 1, 0)

\* the list _prune_tips returned in the last call
Pruned == IF IsRecordRun THEN call.merged ELSE playbook.active_tips

\* the tips _prune_tips was given and did not return
Evicted == {r \in Range(call.decayed) : r.id \notin Ids(Pruned)}

\* C31: in record_run and prompt_overlay only the prune step removes a tip:
\* merge and decay hand every earlier tip to it and feedback keeps what it
\* returned; a tip it removed had a confidence below 0.2, or twenty tips were
\* kept and none of them has a lower confidence than the removed tip.
C31_RankedEviction ==
    (IsRecordRun \/ IsPromptOverlay) =>
        /\ Ids(call.before) \subseteq Ids(call.decayed)
        /\ Range(Pruned) \subseteq Range(call.decayed)
        /\ Ids(playbook.active_tips) = Ids(Pruned)
        /\ \A r \in Evicted :
              \/ r.confidence < 20
              \/ /\ Len(Pruned) = 20
                 /\ \A k \in 1..Len(Pruned) : Pruned[k].confidence >= r.confidence

\* a prune that was given more than twenty tips and removed one whose
\* confidence equals that of a kept tip, and one below every kept tip
C31_Witness ==
    /\ IsRecordRun
    /\ Len(call.decayed) > 20
    /\ Len(call.merged) = 20
    /\ \E r \in Evicted : r.confidence = call.merged[20].confidence
    /\ \E r \in Evicted : r.confidence < call.merged[20].confidence

\* C32: every id prompt_overlay returns is the id of a tip in the active set
\* when the call returns.
C32_ReturnedIdsLive ==
    IsPromptOverlay => Range(call.ids) \subseteq Ids(playbook.active_tips)

\* C33: when record_run has returned the active set holds at most 20 tips,
\* each of confidence 0.2 or more.
C33_ThresholdAtRest ==
    IsRecordRun =>
        /\ Len(playbook.active_tips) <= 20
        /\ \A i \in 1..Len(playbook.active_tips) : playbook.active_tips[i].confidence >= 20

\* C34: merging a candidate of confidence 0.5, 0.6, 0.65 or 0.7 into the tip
\* of its id leaves min(1.0, existing*0.7 + candidate*0.5), which is not below
\* the confidence the tip had.
C34_BlendNotLower ==
    call.op = "merge" =>
        /\ call.updated_conf >= call.before[1].confidence * 100
        /\ \A m \in Range(call.merged) : m.confidence >= call.before[1].confidence

\* the step is a record_run or a prompt_overlay that follows a record_run or a
\* prompt_overlay made at the same instant
SecondPassAtInstant ==
    /\ (IsRecordRun \/ IsPromptOverlay)
    /\ call.at = now
    /\ (runs' = runs + 1 \/ overlays' = overlays + 1)
    /\ call'.op \in {"record_run", "prompt_overlay"}

\* the ids the call of this step observes again or gives feedback to
TouchedInStep ==
    IF call'.op = "record_run"
    THEN Ids(call'.curated) \cup Ids(call'.reflected) \cup Range(call'.used_tip_ids)
    ELSE {}

\* C35: a decay and eviction pass that follows another pass at the same
\* instant leaves every tip it does not observe again or give feedback to in
\* the active set with the confidence the first pass gave it (unless the cap
\* of twenty evicts it).
C35_DecayIdempotent ==
    [][ SecondPassAtInstant =>
          \A b \in Range(playbook.active_tips) :
              b.id \notin TouchedInStep =>
                  \/ \E a \in WithId(playbook'.active_tips, b.id) : a.confidence = b.confidence
                  \/ /\ Len(playbook'.active_tips) = 20
                     /\ b.id \notin Ids(playbook'.active_tips) ]_vars

\* C36: with time advancing and retrievals recurring, tips that are in the
\* active set with 25 days of the clock still to run, and that no call observes
\* again, selects or gives feedback to, are eventually all evicted.
C36_IdleEvicted ==
    (playbook.active_tips # <<>> /\ now <= (MaxIdleDays - 25) * TicksPerDay)
        ~> (playbook.active_tips = <<>>)

\* a retrieval that evicted the last idle tip of the one run
C36_Witness ==
    /\ IsPromptOverlay
    /\ runs = 1
    /\ call.before # <<>>
    /\ call.top = <<>>
    /\ playbook.active_tips = <<>>
    /\ \A r \in Range(call.decayed) : r.confidence < 20

\* C37: when a record_run or prompt_overlay for one domain has returned, every
\* tip that was active before it and belongs to another domain, not "global",
\* is still active with the same confidence, last_used and counters.
C37_CrossDomainFrame ==
    (IsRecordRun \/ IsPromptOverlay) =>
        \A b \in Range(call.before) :
            b.domain \notin {call.domain, GlobalDomain} =>
                \E a \in WithId(playbook.active_tips, b.id) :
                    /\ a.confidence = b.confidence
                    /\ a.last_used = b.last_used
                    /\ a.helpful_count = b.helpful_count
                    /\ a.harmful_count = b.harmful_count

\* C38: durability under concurrency: once every thread's record_run and
\* prompt_overlay have returned, the persisted document equals the store in
\* memory; no write of an older snapshot lands after a later mutation was written.
C38_DurableWhenDone ==
    AllDone => disk = playbook

====
